---- MODULE Spec2Model ----
(***************************************************************************)
(* Financial multi-agent chatbot: the query-routing workflow               *)
(* (FinancialWorkflow, both the backend and the top-level variant), the    *)
(* chat entry point built on it (LangGraphChatbot.process_chat_message and  *)
(* POST /chat) and document upload / deletion (upload_document,            *)
(* delete_document, DocumentIngestionPipeline.process_document), and the   *)
(* two processors of the ingestion pipeline: PDFProcessor (chunk_text,     *)
(* process) and CSVProcessor (analyze_data, create_structured_chunks,      *)
(* process).                                                               *)
(*                                                                         *)
(* Python strings that the code inspects character by character (messages, *)
(* keywords, file suffixes) are sequences of one-character strings.  None  *)
(* is the string "None".  A dict is a function whose DOMAIN is its key set. *)
(***************************************************************************)
EXTENDS Integers, Sequences, FiniteSets, TLC

VARIABLES
    variant,         \* which FinancialWorkflow is loaded: "backend" or "root"
    pc,              \* position of the request being served
    entry,           \* how the request entered: "chat" or "process_request"
    request,         \* the FinancialRequest handed to process_request
    state,           \* the FinancialState dict travelling through the graph
    nodesRun,        \* graph nodes executed for this request, in order
    llmCalls,        \* invocations of the synthesis capability for this request
    retrieval,       \* what the state node got from the store for this request
    failedAt,        \* stages of this request at which an exception was raised
    graphExc,        \* exception escaping graph.invoke ("None" when none)
    wfResult,        \* outcome of process_request
    chatResult,      \* outcome of process_chat_message
    httpStatus,      \* status of POST /chat (0 while none)
    document_store,  \* chatbot.document_store: document id -> metadata
    index,           \* the vector index: document id -> stored chunk set
    saved_files,     \* document ids whose bytes save_file wrote to disk
    nextId,          \* number of document ids generated so far
    chatbot,         \* the chatbot class in use: "LangGraphChatbot", "FinancialChatbot"
                     \* or "EnhancedFinancialChatbot" (of the variant loaded)
    uploadCall,      \* the upload_document call that has just returned (made = FALSE
                     \* when the last operation was not an upload)
    uploadResult,    \* the DocumentUploadResponse of the last upload (returned =
                     \* FALSE when the call raised instead)
    uploadLog,       \* per generated id: the status its upload returned
    use_local_fallback, \* vector_store.use_local_fallback: the store keeps local data
    deleteResult,    \* the delete_document call that has just returned (made = FALSE
                     \* when the last operation was not a delete)
    settings,        \* app.core.config.settings: max_chunk_size and chunk_overlap
    text,            \* the text handed to PDFProcessor.chunk_text / read from the PDF
    chunkArgs,       \* the chunk_size and overlap arguments passed to chunk_text
    chunkCalls,      \* per settings value: what chunk_text(text, chunkArgs) returned
    pdfMeta,         \* the metadata PDFProcessor.process returned for text
    table,           \* the DataFrame read from the CSV file
    csvOut,          \* what CSVProcessor.process did with table
    search_results,  \* the retrieved fragments handed to context assembly
    context          \* the context string the chatbot assembled from them

vars == << variant, pc, entry, request, state, nodesRun, llmCalls, retrieval,
           failedAt, graphExc, wfResult, chatResult, httpStatus,
           document_store, index, saved_files, nextId, chatbot, uploadCall,
           uploadResult, uploadLog, deleteResult, use_local_fallback,
           settings, text, chunkArgs, chunkCalls, pdfMeta, table, csvOut,
           search_results, context >>

wfVars == << variant, pc, entry, request, state, nodesRun, llmCalls, retrieval,
             failedAt, graphExc, wfResult, chatResult, httpStatus >>

storeVars == << document_store, index, saved_files, nextId, chatbot, uploadCall,
               uploadResult, uploadLog, deleteResult, use_local_fallback >>

\* the processors' inputs and outputs
procVars == << settings, text, chunkArgs, chunkCalls, pdfMeta, table, csvOut >>

\* input and output of context assembly
ctxVars == << search_results, context >>

\* everything outside the workflow
docVars == << storeVars, procVars, ctxVars >>

(***************************************************************************)
(* Bounds of the model.                                                    *)
(***************************************************************************)
MaxUploads == 2
MaxChunks == 2

(***************************************************************************)
(* Python string operations.                                               *)
(***************************************************************************)
UpperToLower ==
    [A |-> "a", B |-> "b", C |-> "c", D |-> "d", E |-> "e", F |-> "f",
     G |-> "g", H |-> "h", I |-> "i", J |-> "j", K |-> "k", L |-> "l",
     M |-> "m", N |-> "n", O |-> "o", P |-> "p", Q |-> "q", R |-> "r",
     S |-> "s", T |-> "t", U |-> "u", V |-> "v", W |-> "w", X |-> "x",
     Y |-> "y", Z |-> "z"]

\* str.lower()
lower(s) ==
    [i \in 1..Len(s) |-> IF s[i] \in DOMAIN UpperToLower THEN UpperToLower[s[i]] ELSE s[i]]

\* keyword in message
contains(keyword, message) ==
    \E i \in 0..(Len(message) - Len(keyword)) :
        SubSeq(message, i + 1, i + Len(keyword)) = keyword

\* the characters str.strip() removes: those for which str.isspace() holds
\* (the ASCII ones, the separators FS, GS, RS and US, NEL and the no-break
\* space; the space characters beyond Latin-1 are left out of the alphabet)
Whitespace ==
    {" ", "\t", "\n", "\r", "\f", "", "", "", "", "", "", " "}

\* not message.strip()
is_blank(s) == \A i \in 1..Len(s) : s[i] \in Whitespace

None == "None"

\* bool(x) for an Optional[str] held as a TLA+ string
truthy(x) == x # None /\ x # ""

EmptyDict == [k \in {} |-> ""]

\* dict.get(key, default)
dict_get(d, key, default) == IF key \in DOMAIN d THEN d[key] ELSE default

(***************************************************************************)
(* Routing keywords of _router_node, per variant.                          *)
(***************************************************************************)
SummarizationKeywords(v) ==
    IF v = "backend"
    THEN { <<"s", "u", "m", "m", "a", "r", "i", "z", "e">>,
           <<"s", "u", "m", "m", "a", "r", "y">>,
           <<"e", "x", "e", "c", "u", "t", "i", "v", "e", " ", "s", "u", "m", "m", "a", "r", "y">>,
           <<"k", "e", "y", " ", "p", "o", "i", "n", "t", "s">>,
           <<"o", "v", "e", "r", "v", "i", "e", "w">>,
           <<"b", "r", "i", "e", "f">>,
           <<"s", "y", "n", "o", "p", "s", "i", "s">>,
           <<"r", "e", "c", "a", "p">>,
           <<"h", "i", "g", "h", "l", "i", "g", "h", "t", "s">> }
    ELSE { <<"s", "u", "m", "m", "a", "r", "i", "z", "e">>,
           <<"s", "u", "m", "m", "a", "r", "y">>,
           <<"e", "x", "e", "c", "u", "t", "i", "v", "e", " ", "s", "u", "m", "m", "a", "r", "y">>,
           <<"k", "e", "y", " ", "p", "o", "i", "n", "t", "s">> }

McqKeywords(v) ==
    IF v = "backend"
    THEN { <<"q", "u", "i", "z">>,
           <<"t", "e", "s", "t">>,
           <<"q", "u", "e", "s", "t", "i", "o", "n", "s">>,
           <<"m", "c", "q">>,
           <<"m", "u", "l", "t", "i", "p", "l", "e", " ", "c", "h", "o", "i", "c", "e">>,
           <<"e", "x", "a", "m", "i", "n", "a", "t", "i", "o", "n">>,
           <<"a", "s", "s", "e", "s", "s", "m", "e", "n", "t">>,
           <<"p", "r", "a", "c", "t", "i", "c", "e">>,
           <<"q", "u", "e", "s", "t", "i", "o", "n", "s", " ", "a", "b", "o", "u", "t">> }
    ELSE { <<"q", "u", "i", "z">>,
           <<"t", "e", "s", "t">>,
           <<"q", "u", "e", "s", "t", "i", "o", "n", "s">>,
           <<"m", "c", "q">>,
           <<"m", "u", "l", "t", "i", "p", "l", "e", " ", "c", "h", "o", "i", "c", "e">> }

\* the name each variant gives the answering strategy
DefaultAgent(v) == IF v = "backend" THEN "q&a" ELSE "rag"

(***************************************************************************)
(* Inputs: messages, explicit strategies, document scopes.                 *)
(***************************************************************************)
MsgSummarizeDoc ==
    <<"P", "l", "e", "a", "s", "e", " ", "s", "u", "m", "m", "a", "r", "i", "z", "e", " ",
      "t", "h", "i", "s", " ", "d", "o", "c", "u", "m", "e", "n", "t">>
MsgSummaryQuiz == <<"s", "u", "m", "m", "a", "r", "y", " ", "q", "u", "i", "z">>
MsgQuizMe == <<"Q", "u", "i", "z", " ", "m", "e">>
MsgRevenue == <<"r", "e", "v", "e", "n", "u", "e", "?">>
MsgLatest == <<"l", "a", "t", "e", "s", "t">>
MsgOverview == <<"O", "v", "e", "r", "v", "i", "e", "w">>
MsgBlank == <<" ">>
MsgBlankCr == <<"\r">>

\* a message is [is_str, text]; is_str = FALSE is a non-string value (e.g. an int)
StrMessages ==
    { [is_str |-> TRUE, text |-> t] :
        t \in { MsgSummarizeDoc, MsgSummaryQuiz, MsgQuizMe, MsgRevenue, MsgLatest,
                MsgOverview, MsgBlank, MsgBlankCr } }
NonStrMessage == [is_str |-> FALSE, text |-> <<>>]
Messages == StrMessages \cup { NonStrMessage }

AgentTypeArgs == { None, "q&a", "rag", "summarization", "mcq", "error" }

\* uuid.uuid4() as the i-th fresh identifier
DocNames == << "d1", "d2", "d3", "d4" >>
DocName(i) == DocNames[i]
DocIds == { DocName(i) : i \in 1..MaxUploads }
DocumentIdArgs == { None, DocName(1) }

\* str(e) of the exceptions the external capabilities raise
ExcTexts == { "capability failed", "" }

(***************************************************************************)
(* The vector store (external collaborator): the chunks it holds and what  *)
(* its lookups return.                                                     *)
(***************************************************************************)
\* the length of the text of chunk j of document number i: texts of 200 and
\* 201 characters and short texts alternate
ContentLen(i, j) ==
    CASE (i + j) % 3 = 2 -> 200
      [] (i + j) % 3 = 0 -> 201
      [] OTHER -> 1

\* the text of a stored chunk
ChunkContent(i, j) == [k \in 1..ContentLen(i, j) |-> "x"]

RECURSIVE ChunksFrom(_, _)
ChunksFrom(idx, i) ==
    IF i > Len(DocNames) THEN << >>
    ELSE LET d == DocName(i) IN
         (IF d \in DOMAIN idx
          THEN [j \in 1..idx[d].n |->
                   [content |-> ChunkContent(i, j),
                    metadata |-> [document_id |-> d, chunk_index |-> j,
                                  file_type |-> idx[d].file_type]]]
          ELSE << >>) \o ChunksFrom(idx, i + 1)

\* vector_store.get_all_chunks()
get_all_chunks(idx) == ChunksFrom(idx, 1)

\* vector_store.get_document_chunks(document_id)
get_document_chunks(idx, document_id) ==
    SelectSeq(get_all_chunks(idx), LAMBDA c : c.metadata.document_id = document_id)

Min(a, b) == IF a < b THEN a ELSE b

rag_top_k_results == 5

\* outcomes of a store lookup: it raises, or returns a list of chunks
Raised(e) == [raised |-> TRUE, exc |-> e, chunks |-> << >>]
Returned(cs) == [raised |-> FALSE, exc |-> "", chunks |-> cs]

\* a lookup outcome together with the store calls made for it, in order
store_call(ret, calls) ==
    [raised |-> ret.raised, exc |-> ret.exc, chunks |-> ret.chunks, calls |-> calls]

\* no store call was made for the request
NoRetrieval == [called |-> FALSE, raised |-> FALSE, chunks |-> << >>, calls |-> << >>]

\* the distance the store reports for the match of a given rank (best first)
MatchDistance(rank) == Min(rank - 1, 2)

\* vector_store.search_similar_chunks(query, top_k, document_id): the best
\* matches of the scope, best first, at most top_k of them, each with its
\* distance to the query
search_similar_chunks(idx, top_k, document_id) ==
    LET scope == IF document_id = None THEN get_all_chunks(idx)
                 ELSE get_document_chunks(idx, document_id)
    IN { Raised(e) : e \in ExcTexts }
       \cup { Returned([r \in 1..k |->
                          [content |-> scope[r].content, metadata |-> scope[r].metadata,
                           distance |-> MatchDistance(r)]]) :
                k \in 0..Min(Len(scope), top_k) }

\* get_all_chunks / get_document_chunks as called by a node: raises or returns
all_chunks_outcomes(idx) ==
    { Raised(e) : e \in ExcTexts } \cup { Returned(get_all_chunks(idx)) }

document_chunks_outcomes(idx, document_id) ==
    { Raised(e) : e \in ExcTexts } \cup { Returned(get_document_chunks(idx, document_id)) }

\* the synthesis capability (chain.invoke): raises or returns generated text
SynthesisOutcomes ==
    { [raised |-> TRUE, exc |-> e] : e \in ExcTexts } \cup { [raised |-> FALSE, exc |-> ""] }

LLMText == << "generated text" >>

(***************************************************************************)
(* FinancialWorkflow: the graph and its nodes.                             *)
(***************************************************************************)
\* add_conditional_edges("router", _route_decision, {...})
ConditionalEdges(v) ==
    IF v = "backend"
    THEN ("q&a" :> "rag_agent") @@ ("summarization" :> "summarization_agent")
         @@ ("mcq" :> "mcq_agent") @@ ("error" :> "error_handler")
    ELSE ("rag" :> "rag_agent") @@ ("summarization" :> "summarization_agent")
         @@ ("mcq" :> "mcq_agent") @@ ("error" :> "error_handler")

\* mutant: the quiz cues are checked before the summarization cues
keyword_agent_quiz_first(v, message) ==
    IF \E keyword \in McqKeywords(v) : contains(keyword, message)
    THEN "mcq"
    ELSE IF \E keyword \in SummarizationKeywords(v) : contains(keyword, message)
    THEN "summarization"
    ELSE DefaultAgent(v)

\* the keyword rule of _router_node
keyword_agent(v, message) ==
    IF \E keyword \in SummarizationKeywords(v) : contains(keyword, message)
    THEN "summarization"
    ELSE IF \E keyword \in McqKeywords(v) : contains(keyword, message)
    THEN "mcq"
    ELSE DefaultAgent(v)

\* mutant: a keyword match beats the explicit strategy
override_agent_keywords_win(explicit, fromKeywords) ==
    IF fromKeywords \in {"summarization", "mcq"} \/ ~truthy(explicit)
    THEN fromKeywords ELSE explicit

\* the explicit override of _router_node
override_agent(explicit, fromKeywords) ==
    IF truthy(explicit) THEN explicit ELSE fromKeywords

NotStrError == "'int' object has no attribute 'lower'"

\* mutant: the router's except clause swallows the exception and falls back
\* to the default strategy
_router_node_swallow(v, st) ==
    IF ~st.message.is_str
    THEN [st EXCEPT !.next_agent = DefaultAgent(v)]
    ELSE [st EXCEPT !.next_agent =
              override_agent(st.agent_type, keyword_agent(v, lower(st.message.text)))]

\* _router_node: the routing rule, and its except clause for a message that
\* has no lower()
_router_node(v, st) ==
    IF ~st.message.is_str
    THEN [st EXCEPT !.error = NotStrError, !.next_agent = "error"]
    ELSE [st EXCEPT !.next_agent =
              override_agent(st.agent_type, keyword_agent(v, lower(st.message.text)))]

_route_decision(v, st) ==
    IF truthy(st.error) THEN "error" ELSE st.next_agent

NoInfoMsg ==
    << "I couldn't find relevant financial information in the uploaded documents to answer your question." >>
RagErrorMsg ==
    << "I encountered an error while processing your financial question. Please try again." >>
NoSummaryContentMsg(v) ==
    IF v = "backend"
    THEN << "No document content found for summarization. Please upload a document first." >>
    ELSE << "No document content found for summarization." >>
NoMcqContentMsg(v) ==
    IF v = "backend"
    THEN << "No document content found for MCQ generation. Please upload a document first." >>
    ELSE << "No document content found for MCQ generation." >>
SummaryNeedsIdMsg == << "Please specify a document ID to generate a summary." >>
McqNeedsIdMsg == << "Please specify a document ID to generate MCQ questions." >>
SummaryErrorMsg ==
    << "I encountered an error while generating the summary. Please try again." >>
McqErrorMsg ==
    << "I encountered an error while generating MCQ questions. Please try again." >>
RequestErrorMsg(e) ==
    << "I encountered an error while processing your request: ", e, ". Please try again." >>
ChatErrorMsg ==
    << "I encountered an error while processing your request. Please try again." >>

\* the except clause of a state node: what it records besides state["error"]
node_except(v, st, agent, msg, e) ==
    IF v = "backend"
    THEN [st EXCEPT !.error = e, !.response = msg,
                    !.metadata = [agent_type |-> agent, error |-> e]]
    ELSE [st EXCEPT !.error = e, !.response = msg]

SourceExcerptLen == 200

\* mutant: a content of exactly 200 characters is cut as well
source_excerpt_cut_at_limit(content) ==
    IF Len(content) >= SourceExcerptLen
    THEN SubSeq(content, 1, SourceExcerptLen) \o << ".", ".", "." >>
    ELSE content

\* chunk['content'][:200] + "..." if len(chunk['content']) > 200 else chunk['content']
source_excerpt(content) ==
    IF Len(content) > SourceExcerptLen
    THEN SubSeq(content, 1, SourceExcerptLen) \o << ".", ".", "." >>
    ELSE content

\* the sources list of the answering node, one entry per retrieved fragment
rag_sources(chunks) ==
    [i \in 1..Len(chunks) |->
        [content |-> source_excerpt(chunks[i].content),
         metadata |-> chunks[i].metadata,
         relevance_score |-> 1 - dict_get(chunks[i], "distance", 0),
         document_type |-> dict_get(chunks[i].metadata, "file_type", "unknown")]]

\* a node's result: the state it returns, the synthesis calls it made and the
\* stages at which it caught an exception
NodeResult(st, calls, stages) == [st |-> st, llm |-> calls, failed |-> stages]

\* mutant: the answering node goes on to synthesis without any fragment
rag_no_context_never(context_chunks) == FALSE

\* `if not context_chunks:` of the answering node
rag_no_context(context_chunks) == Len(context_chunks) = 0

\* the answering node given the lookup outcome ret and the synthesis outcome syn
_rag_agent_node(v, st, ret, syn) ==
    IF ret.raised
    THEN NodeResult(node_except(v, st, "q&a", RagErrorMsg, ret.exc), 0, {"retrieval"})
    ELSE IF rag_no_context(ret.chunks)
    THEN NodeResult(
            [st EXCEPT !.response = NoInfoMsg, !.sources = << >>,
                       !.metadata = IF v = "backend"
                                    THEN [context_chunks_found |-> 0, agent_type |-> "q&a"]
                                    ELSE [context_chunks_found |-> 0]],
            0, {})
    ELSE IF syn.raised
    THEN NodeResult(node_except(v, st, "q&a", RagErrorMsg, syn.exc), 1, {"synthesis"})
    ELSE NodeResult(
            [st EXCEPT !.response = LLMText, !.sources = rag_sources(ret.chunks),
                       !.metadata = [context_chunks_found |-> Len(ret.chunks),
                                     document_id |-> st.document_id,
                                     agent_type |-> DefaultAgent(v)]],
            1, {})

\* repr() of a dict key: str(KeyError(key)) is the key in quotes
repr(key) ==
    CASE key = "q&a" -> "'q&a'"
      [] key = "rag" -> "'rag'"
      [] key = "summarization" -> "'summarization'"
      [] key = "mcq" -> "'mcq'"
      [] key = "error" -> "'error'"
      [] key = "conversation_context" -> "'conversation_context'"
      [] OTHER -> key

\* the input variables the quizzing node's prompt template names: the backend
\* template is a plain string that names {conversation_context} as well
McqPromptVariables(v) ==
    IF v = "backend" THEN {"num_questions", "document_content", "conversation_context"}
    ELSE {"num_questions", "document_content"}

\* the keys of the dict the quizzing node passes to chain.invoke
McqChainInputs == {"document_content", "num_questions"}

\* str(e) of the KeyError raised for the quizzing prompt's missing variable:
\* the wording is the prompt library's and differs between its releases (the
\* bare key of str.format, or the library's own sentence)
MissingVariableTexts ==
    { repr("conversation_context"),
      "\"Input to ChatPromptTemplate is missing variables {'conversation_context'}.  Expected: ['conversation_context', 'document_content', 'num_questions'] Received: ['document_content', 'num_questions']\"" }

\* chain.invoke(inputs) of prompt | llm: formatting the prompt raises KeyError
\* (str(e) = key_error) for a variable the inputs lack, and the synthesis
\* capability is never asked (llm = 0); otherwise the capability is asked
\* once and the outcome is its outcome syn
chain_invoke(variables, inputs, syn, key_error) ==
    IF variables \subseteq inputs
    THEN [raised |-> syn.raised, exc |-> syn.exc, llm |-> 1, stage |-> "synthesis"]
    ELSE [raised |-> TRUE, exc |-> key_error, llm |-> 0, stage |-> "prompt"]

\* mutant: the summarizing and quizzing nodes go on without any chunk
no_document_content_never(chunks) == FALSE

\* `if not chunks:` of the summarizing and quizzing nodes
no_document_content(chunks) == Len(chunks) = 0

\* the body shared by the summarizing and quizzing nodes; inv is the outcome
\* of the node's chain.invoke
document_agent_node(v, st, ret, inv, agent, needsId, noContent, errMsg) ==
    IF v = "root" /\ ~truthy(st.document_id)
    THEN NodeResult([st EXCEPT !.response = needsId, !.sources = << >>,
                               !.metadata = EmptyDict], 0, {})
    ELSE IF ret.raised
    THEN NodeResult(node_except(v, st, agent, errMsg, ret.exc), 0, {"retrieval"})
    ELSE IF no_document_content(ret.chunks)
    THEN NodeResult(
            [st EXCEPT !.response = noContent, !.sources = << >>,
                       !.metadata = IF v = "backend" THEN [agent_type |-> agent]
                                    ELSE EmptyDict],
            0, {})
    ELSE IF inv.raised
    THEN NodeResult(node_except(v, st, agent, errMsg, inv.exc), inv.llm, {inv.stage})
    ELSE NodeResult(
            [st EXCEPT !.response = LLMText,
                       !.sources = << [type |-> IF agent = "summarization" THEN "summary" ELSE "mcq",
                                       document_id |-> IF v = "backend" THEN "multi-document"
                                                       ELSE st.document_id] >>,
                       !.metadata = [agent_type |-> agent]],
            inv.llm, {})

\* the summarizing prompt names {document_content} only, which chain.invoke
\* passes
_summarization_agent_node(v, st, ret, syn) ==
    document_agent_node(v, st, ret,
                        chain_invoke({"document_content"}, {"document_content"}, syn, ""),
                        "summarization",
                        SummaryNeedsIdMsg, NoSummaryContentMsg(v), SummaryErrorMsg)

_mcq_agent_node(v, st, ret, syn, key_error) ==
    document_agent_node(v, st, ret,
                        chain_invoke(McqPromptVariables(v), McqChainInputs, syn, key_error),
                        "mcq",
                        McqNeedsIdMsg, NoMcqContentMsg(v), McqErrorMsg)

_error_handler_node(st) ==
    [st EXCEPT !.response = RequestErrorMsg(st.error), !.sources = << >>,
               !.metadata = [error |-> st.error, agent_type |-> "error"]]

(***************************************************************************)
(* process_request: the start of the try block, and its two ways out.      *)
(***************************************************************************)
\* attributes a request object exposes: FinancialRequest (state.py) declares
\* message, document_id and agent_type; has_history marks a request object
\* that also carries conversation_history (e.g. a ChatRequest)
RequestAttributes(req) ==
    {"message", "document_id", "agent_type"}
    \cup (IF req.has_history THEN {"conversation_history"} ELSE {})

\* the attributes process_request reads to build initial_state
AttributesRead(v) ==
    IF v = "backend"
    THEN {"message", "document_id", "agent_type", "conversation_history"}
    ELSE {"message", "document_id", "agent_type"}

HistoryError == "'FinancialRequest' object has no attribute 'conversation_history'"

initial_state(req) ==
    [message |-> req.message, document_id |-> req.document_id,
     agent_type |-> req.agent_type, response |-> << >>, sources |-> << >>,
     metadata |-> EmptyDict, next_agent |-> None, error |-> None]

NoResult ==
    [kind |-> "none", response |-> << >>, agent_type |-> None, sources |-> << >>,
     metadata |-> EmptyDict, exc |-> None]

ReturnedResult(response, agent_type, sources, metadata) ==
    [kind |-> "returned", response |-> response, agent_type |-> agent_type,
     sources |-> sources, metadata |-> metadata, exc |-> None]

RaisedResult(e) == [NoResult EXCEPT !.kind = "raised", !.exc = e]

\* mutant: process_request lets the exception escape
process_request_except_reraise(e) == RaisedResult(e)

\* the except clause of process_request
process_request_except(e) ==
    ReturnedResult(RequestErrorMsg(e), "error", << >>, [error |-> e])

\* FinancialResponse(...) built from the final state
process_request_response(v, final_state) ==
    ReturnedResult(final_state.response,
                   dict_get(final_state.metadata, "agent_type", DefaultAgent(v)),
                   final_state.sources, final_state.metadata)

\* where control goes once process_request has its result
AfterWorkflow == IF entry = "chat" THEN "chat_return" ELSE "done"

\* process_request up to graph.invoke, for request req entered by ent
StartProcessRequest(req, ent) ==
    /\ request' = req
    /\ entry' = ent
    /\ nodesRun' = << >>
    /\ llmCalls' = 0
    /\ retrieval' = NoRetrieval
    /\ graphExc' = None
    /\ chatResult' = NoResult
    /\ httpStatus' = 0
    /\ IF AttributesRead(variant) \subseteq RequestAttributes(req)
       THEN /\ state' = initial_state(req)
            /\ failedAt' = {}
            /\ wfResult' = NoResult
            /\ pc' = "router"
       ELSE /\ state' = initial_state(req)
            /\ failedAt' = {"request"}
            /\ wfResult' = process_request_except(HistoryError)
            /\ pc' = IF ent = "chat" THEN "chat_return" ELSE "done"
    /\ UNCHANGED << variant, docVars >>

\* a caller invokes workflow.process_request(request) directly
ProcessRequest ==
    /\ pc = "idle"
    /\ \E m \in Messages, a \in AgentTypeArgs, d \in DocumentIdArgs, h \in BOOLEAN :
          \* a FinancialRequest holds a str message; other request objects may not
          /\ (~m.is_str => h)
          /\ StartProcessRequest(
                [message |-> m, document_id |-> d, agent_type |-> a, has_history |-> h],
                "process_request")

(***************************************************************************)
(* The graph run: router, routing decision, one state node.                *)
(***************************************************************************)
RouterNode ==
    /\ pc = "router"
    /\ state' = _router_node(variant, state)
    /\ nodesRun' = Append(nodesRun, "router")
    /\ failedAt' = IF state.message.is_str THEN failedAt ELSE failedAt \cup {"router"}
    /\ pc' = "route"
    /\ UNCHANGED << variant, entry, request, llmCalls, retrieval, graphExc, wfResult,
                    chatResult, httpStatus, docVars >>

\* the conditional edge: a key the edge map lacks makes graph.invoke raise
\* KeyError(key)
RouteDecision ==
    /\ pc = "route"
    /\ LET key == _route_decision(variant, state) IN
       IF key \in DOMAIN ConditionalEdges(variant)
       THEN /\ pc' = ConditionalEdges(variant)[key]
            /\ UNCHANGED << graphExc, failedAt >>
       ELSE /\ pc' = "return"
            /\ graphExc' = repr(key)
            /\ failedAt' = failedAt \cup {"graph"}
    /\ UNCHANGED << variant, entry, request, state, nodesRun, llmCalls, retrieval,
                    wfResult, chatResult, httpStatus, docVars >>

\* a state node ran with lookup outcome ret and produced res
FinishNode(node, ret, res) ==
    /\ state' = res.st
    /\ llmCalls' = llmCalls + res.llm
    /\ failedAt' = failedAt \cup res.failed
    /\ retrieval' = [called |-> ret.calls # << >>, raised |-> ret.raised,
                     chunks |-> ret.chunks, calls |-> ret.calls]
    /\ nodesRun' = Append(nodesRun, node)
    /\ pc' = "return"
    /\ UNCHANGED << variant, entry, request, graphExc, wfResult, chatResult,
                    httpStatus, docVars >>

\* the document scope the answering node passes to the lookup
rag_search_scope(v, st) == IF v = "backend" THEN None ELSE st.document_id

RagAgentNode ==
    /\ pc = "rag_agent"
    /\ \E found \in search_similar_chunks(index, rag_top_k_results,
                                          rag_search_scope(variant, state)),
          syn \in SynthesisOutcomes :
          LET ret == store_call(found, << "search_similar_chunks" >>)
          IN FinishNode("rag_agent", ret, _rag_agent_node(variant, state, ret, syn))

\* what the summarizing and quizzing nodes ask the store for.  The backend
\* nodes first call _load_local_data() when the store runs on its local
\* fallback (the local data is what the store holds, so a load that returns
\* leaves idx as it is; a load that raises ends the lookup) and then
\* get_all_chunks(); the top-level nodes call get_document_chunks(document_id),
\* and make no call at all without a document_id
document_agent_lookup(v, st, idx, fallback) ==
    IF v = "backend"
    THEN (IF fallback
          THEN { store_call(Raised(e), << "_load_local_data" >>) : e \in ExcTexts }
          ELSE {})
         \cup { store_call(r, (IF fallback THEN << "_load_local_data" >> ELSE << >>)
                               \o << "get_all_chunks" >>) :
                  r \in all_chunks_outcomes(idx) }
    ELSE IF ~truthy(st.document_id)
    THEN { store_call(Returned(<< >>), << >>) }
    ELSE { store_call(r, << "get_document_chunks" >>) :
             r \in document_chunks_outcomes(idx, st.document_id) }

SummarizationAgentNode ==
    /\ pc = "summarization_agent"
    /\ \E ret \in document_agent_lookup(variant, state, index, use_local_fallback),
          syn \in SynthesisOutcomes :
          FinishNode("summarization_agent", ret,
                     _summarization_agent_node(variant, state, ret, syn))

McqAgentNode ==
    /\ pc = "mcq_agent"
    /\ \E ret \in document_agent_lookup(variant, state, index, use_local_fallback),
          syn \in SynthesisOutcomes, key_error \in MissingVariableTexts :
          FinishNode("mcq_agent", ret,
                     _mcq_agent_node(variant, state, ret, syn, key_error))

ErrorHandlerNode ==
    /\ pc = "error_handler"
    /\ state' = _error_handler_node(state)
    /\ nodesRun' = Append(nodesRun, "error_handler")
    /\ pc' = "return"
    /\ UNCHANGED << variant, entry, request, llmCalls, retrieval, failedAt, graphExc,
                    wfResult, chatResult, httpStatus, docVars >>

\* graph.invoke is over: process_request returns the response or catches
ProcessRequestReturn ==
    /\ pc = "return"
    /\ wfResult' = IF graphExc = None THEN process_request_response(variant, state)
                   ELSE process_request_except(graphExc)
    /\ pc' = AfterWorkflow
    /\ UNCHANGED << variant, entry, request, state, nodesRun, llmCalls, retrieval,
                    failedAt, graphExc, chatResult, httpStatus, docVars >>

(***************************************************************************)
(* The chat entry point: POST /chat and LangGraphChatbot.                  *)
(***************************************************************************)
\* class AgentType(str, Enum)
AgentType == [QnA |-> "q&a", SUMMARIZATION |-> "summarization", MCQ |-> "mcq"]
AgentTypeValues == { AgentType[k] : k \in DOMAIN AgentType }

\* str(e) of the AttributeError that AgentType.RAG raises: the member's name
\* up to Python 3.11, the whole sentence from Python 3.12 on
NoSuchMemberTexts == { "RAG", "type object 'AgentType' has no attribute 'RAG'" }

\* the except clause of LangGraphChatbot.process_chat_message, which
\* names AgentType.RAG
process_chat_message_except(e, no_member) ==
    IF "RAG" \in DOMAIN AgentType
    THEN ReturnedResult(ChatErrorMsg, AgentType["RAG"], << >>, [error |-> e])
    ELSE RaisedResult(no_member)

\* ChatResponse(..., agent_type=AgentType(workflow_response.agent_type), ...)
process_chat_message_response(wf, no_member) ==
    IF wf.agent_type \in AgentTypeValues
    THEN ReturnedResult(wf.response, wf.agent_type, wf.sources, wf.metadata)
    ELSE process_chat_message_except("not a valid AgentType", no_member)

\* the status POST /chat answers with, given what process_chat_message did
chat_status(result) == IF result.kind = "returned" THEN 200 ELSE 500

ChatRequestAgentTypes == { None } \cup AgentTypeValues

\* POST /chat with a ChatRequest: a blank message is refused with 400,
\* otherwise process_chat_message builds the FinancialRequest and runs it
Chat ==
    /\ pc = "idle"
    /\ variant = "backend"
    /\ \E m \in StrMessages, a \in ChatRequestAgentTypes, d \in DocumentIdArgs :
          LET req == [message |-> m, document_id |-> d, agent_type |-> a,
                      has_history |-> FALSE]
          IN IF is_blank(m.text)
             THEN /\ request' = req
                  /\ entry' = "chat"
                  /\ httpStatus' = 400
                  /\ pc' = "done"
                  /\ state' = initial_state(req)
                  /\ nodesRun' = << >>
                  /\ llmCalls' = 0
                  /\ retrieval' = NoRetrieval
                  /\ failedAt' = {}
                  /\ graphExc' = None
                  /\ wfResult' = NoResult
                  /\ chatResult' = NoResult
                  /\ UNCHANGED << variant, docVars >>
             ELSE StartProcessRequest(req, "chat")

\* process_chat_message converts the workflow response; POST /chat answers
ChatReturn ==
    /\ pc = "chat_return"
    /\ \E no_member \in NoSuchMemberTexts :
       LET result == process_chat_message_response(wfResult, no_member) IN
          /\ chatResult' = result
          /\ httpStatus' = chat_status(result)
          /\ failedAt' = IF wfResult.agent_type \in AgentTypeValues THEN failedAt
                         ELSE failedAt \cup {"convert"}
    /\ pc' = "done"
    /\ UNCHANGED << variant, entry, request, state, nodesRun, llmCalls, retrieval,
                    graphExc, wfResult, docVars >>

IdleRequest ==
    [message |-> NonStrMessage, document_id |-> None, agent_type |-> None,
     has_history |-> FALSE]

\* the request is over; the next one may start
Finish ==
    /\ pc = "done"
    /\ pc' = "idle"
    /\ request' = IdleRequest
    /\ state' = initial_state(IdleRequest)
    /\ entry' = "none"
    /\ nodesRun' = << >>
    /\ llmCalls' = 0
    /\ retrieval' = NoRetrieval
    /\ failedAt' = {}
    /\ graphExc' = None
    /\ wfResult' = NoResult
    /\ chatResult' = NoResult
    /\ httpStatus' = 0
    /\ UNCHANGED << variant, docVars >>

(***************************************************************************)
(* Ingestion: DocumentIngestionPipeline.process_document and the chatbot's *)
(* upload_document / delete_document.                                      *)
(***************************************************************************)
SuffixPdf == <<".", "p", "d", "f">>
SuffixPdfUpper == <<".", "P", "D", "F">>
SuffixCsv == <<".", "c", "s", "v">>
SuffixCsvMixed == <<".", "C", "s", "v">>
SuffixTxt == <<".", "t", "x", "t">>
NoSuffix == << >>

\* Path(filename).suffix of the uploaded files
Suffixes == { SuffixPdf, SuffixPdfUpper, SuffixCsv, SuffixCsvMixed, SuffixTxt, NoSuffix }

Unsupported == "unsupported"

\* get_file_type: the kind of a file by its lower-cased suffix, or a ValueError
get_file_type(suffix) ==
    LET ext == lower(suffix) IN
    IF ext = SuffixPdf THEN "pdf"
    ELSE IF ext = SuffixCsv THEN "csv"
    ELSE Unsupported

\* class DocumentType(str, Enum)
DocumentType == [PDF |-> "pdf"]
DocumentTypeValues == { DocumentType[k] : k \in DOMAIN DocumentType }

\* what processor.process(file_path) gives: it raises, or returns the chunks
\* (a table always has its overview chunk; a text may have no chunk at all)
ProcessOutcomes(file_type) ==
    { [raised |-> TRUE, n |-> 0] }
    \cup { [raised |-> FALSE, n |-> k] :
             k \in (IF file_type = "csv" THEN 1 ELSE 0)..MaxChunks }

\* process_document: save_file, get_file_type, processor.process, metadata.update.
\* f is the call: the file's suffix and the outcome of each external step.
process_document(f, document_id) ==
    IF ~f.save_ok THEN [raised |-> TRUE, saved |-> FALSE, metadata |-> EmptyDict]
    ELSE IF get_file_type(f.suffix) = Unsupported
    THEN [raised |-> TRUE, saved |-> TRUE, metadata |-> EmptyDict]
    ELSE IF f.process.raised
    THEN [raised |-> TRUE, saved |-> TRUE, metadata |-> EmptyDict]
    ELSE [raised |-> FALSE, saved |-> TRUE,
          metadata |-> [document_id |-> document_id, suffix |-> f.suffix,
                        file_type |-> get_file_type(f.suffix),
                        total_chunks |-> f.process.n, status |-> "processed"]]

ErrorUploadResponse ==
    [returned |-> TRUE, status |-> "error", document_id |-> "", document_type |-> "pdf",
     total_chunks |-> 0]

\* DocumentUploadResponse(document_type=metadata['file_type'], status='processed', ...):
\* the model validates document_type against DocumentType
upload_response(metadata) ==
    IF metadata.file_type \in DocumentTypeValues
    THEN [returned |-> TRUE, status |-> "processed", document_id |-> metadata.document_id,
          document_type |-> metadata.file_type, total_chunks |-> metadata.total_chunks]
    ELSE ErrorUploadResponse

\* upload_document as a whole: the stores after it and the response it returns
upload_document(f, document_id, store, idx) ==
    LET pd == process_document(f, document_id) IN
    IF pd.raised
    THEN [store |-> store, idx |-> idx, saved |-> pd.saved, response |-> ErrorUploadResponse]
    ELSE LET store1 == (document_id :> pd.metadata) @@ store IN
         IF pd.metadata.total_chunks > 0 /\ ~f.add_ok
         THEN [store |-> store1, idx |-> idx, saved |-> TRUE,
               response |-> ErrorUploadResponse]
         ELSE [store |-> store1,
               idx |-> IF pd.metadata.total_chunks > 0
                       THEN (document_id :> [n |-> pd.metadata.total_chunks,
                                             file_type |-> pd.metadata.file_type]) @@ idx
                       ELSE idx,
               saved |-> TRUE,
               response |-> upload_response(pd.metadata)]

\* the except clause of EnhancedFinancialChatbot.upload_document:
\* DocumentUploadResponse(document_type="unknown", status='error', ...), which
\* the model validates against DocumentType, so the ValidationError leaves
\* upload_document
enhanced_upload_except ==
    IF "unknown" \in DocumentTypeValues
    THEN [returned |-> TRUE, status |-> "error", document_id |-> "",
          document_type |-> "unknown", total_chunks |-> 0]
    ELSE [returned |-> FALSE, status |-> None, document_id |-> None,
          document_type |-> None, total_chunks |-> 0]

\* upload_document of EnhancedFinancialChatbot: process_document and the
\* response; the class keeps no document_store and adds nothing to the index.
\* The top-level class (upload_document_to_session) also adds the document to
\* a session of its knowledge manager, f.add_ok telling whether that worked;
\* its DocumentUploadResponse is taken to be the backend's
enhanced_upload_document(v, f, document_id, store, idx) ==
    LET pd == process_document(f, document_id)
        response ==
            IF pd.raised THEN enhanced_upload_except
            ELSE IF v = "root" /\ ~f.add_ok THEN enhanced_upload_except
            ELSE IF pd.metadata.file_type \in DocumentTypeValues
            THEN upload_response(pd.metadata)
            ELSE enhanced_upload_except
    IN [store |-> store, idx |-> idx, saved |-> pd.saved, response |-> response]

\* list_documents()
list_documents(store) ==
    { [document_id |-> d, file_type |-> store[d].file_type, status |-> store[d].status] :
        d \in DOMAIN store }

\* get_document_info(document_id) of LangGraphChatbot
get_document_info(store, document_id) == dict_get(store, document_id, None)

NoUploadCall ==
    [made |-> FALSE, suffix |-> NoSuffix, save_ok |-> FALSE,
     process |-> [raised |-> TRUE, n |-> 0], add_ok |-> FALSE, document_id |-> None]

NoDeleteCall ==
    [made |-> FALSE, document_id |-> None, outcome |-> "raised", returned |-> FALSE,
     raised |-> FALSE]

UploadDocument ==
    /\ pc = "idle"
    /\ nextId < MaxUploads
    /\ \E suffix \in Suffixes, save_ok \in BOOLEAN, add_ok \in BOOLEAN :
       \E process \in ProcessOutcomes(get_file_type(suffix)) :
          LET document_id == DocName(nextId + 1)
              f == [made |-> TRUE, suffix |-> suffix, save_ok |-> save_ok,
                    process |-> process, add_ok |-> add_ok, document_id |-> document_id]
              r == IF chatbot = "EnhancedFinancialChatbot"
                   THEN enhanced_upload_document(variant, f, document_id,
                                                 document_store, index)
                   ELSE upload_document(f, document_id, document_store, index)
          IN /\ nextId' = nextId + 1
             /\ uploadCall' = f
             /\ document_store' = r.store
             /\ index' = r.idx
             /\ saved_files' = IF r.saved THEN saved_files \cup {document_id}
                               ELSE saved_files
             /\ uploadResult' = r.response
             /\ uploadLog' = (document_id :> r.response.status) @@ uploadLog
    /\ deleteResult' = NoDeleteCall
    /\ UNCHANGED << ctxVars, wfVars, chatbot, use_local_fallback, procVars >>

\* vector_store.delete_document(document_id): it raises, or removes the
\* document's chunks and reports whether it did
IndexDeleteOutcomes == { "raised", "deleted", "not_deleted" }

remove_key(f, k) == [x \in DOMAIN f \ {k} |-> f[x]]

\* delete_document of EnhancedFinancialChatbot.  The backend class returns
\* what vector_store.delete_document gives, False when it raises; the
\* top-level class hands the id to its knowledge manager (outcome is then
\* that call's), which is not the index, and lets its exception through
enhanced_delete_document(v, document_id, outcome, store, idx) ==
    IF v = "backend"
    THEN [store |-> store,
          idx |-> IF outcome = "deleted" THEN remove_key(idx, document_id) ELSE idx,
          returned |-> outcome = "deleted", raised |-> FALSE]
    ELSE [store |-> store, idx |-> idx, returned |-> outcome = "deleted",
          raised |-> outcome = "raised"]

\* delete_document of the chatbot class cb, given the index's outcome
delete_document(cb, document_id, outcome, store, idx) ==
    LET idx1 == IF outcome = "deleted" THEN remove_key(idx, document_id) ELSE idx IN
    IF cb = "LangGraphChatbot"
    THEN IF document_id \in DOMAIN store
         THEN IF outcome = "raised"
              THEN [store |-> store, idx |-> idx, returned |-> FALSE, raised |-> FALSE]
              ELSE [store |-> remove_key(store, document_id), idx |-> idx1,
                    returned |-> TRUE, raised |-> FALSE]
         ELSE [store |-> store, idx |-> idx, returned |-> FALSE, raised |-> FALSE]
    ELSE IF outcome = "raised"
         THEN [store |-> store, idx |-> idx, returned |-> FALSE, raised |-> FALSE]
         ELSE [store |-> remove_key(store, document_id), idx |-> idx1,
               returned |-> outcome = "deleted" \/ document_id \in DOMAIN store,
               raised |-> FALSE]

DeleteDocument ==
    /\ pc = "idle"
    /\ \E document_id \in DocIds, outcome \in IndexDeleteOutcomes :
          LET r == IF chatbot = "EnhancedFinancialChatbot"
                   THEN enhanced_delete_document(variant, document_id, outcome,
                                                 document_store, index)
                   ELSE delete_document(chatbot, document_id, outcome,
                                        document_store, index)
          IN /\ document_store' = r.store
             /\ index' = r.idx
             /\ deleteResult' = [made |-> TRUE, document_id |-> document_id,
                                 outcome |-> outcome, returned |-> r.returned,
                                 raised |-> r.raised]
    /\ uploadCall' = NoUploadCall
    /\ UNCHANGED << ctxVars, wfVars, saved_files, nextId, chatbot, uploadResult, uploadLog,
                    use_local_fallback, procVars >>

(***************************************************************************)
(* PDFProcessor: fixed-window chunking of extracted text.                  *)
(***************************************************************************)
MaxTextLen == 4
MaxChunkSize == 3

\* the characters of the texts: a letter and a blank
Chars == {"a", " "}

Texts == UNION { [1..n -> Chars] : n \in 0..MaxTextLen }

\* an Optional[int] argument: None, or an int
NoneInt == [is_none |-> TRUE, value |-> 0]
SomeInt(n) == [is_none |-> FALSE, value |-> n]

\* Python's `x or default` on an Optional[int]: None and 0 are both falsy
or_default(x, default) == IF x.is_none \/ x.value = 0 THEN default ELSE x.value

ChunkSizeArgs == { NoneInt } \cup { SomeInt(n) : n \in 0..MaxChunkSize }
OverlapArgs == { NoneInt } \cup { SomeInt(n) : n \in 0..(MaxChunkSize - 1) }

\* values of (settings.max_chunk_size, settings.chunk_overlap) a deployment
\* may configure, scaled down to the texts' lengths
SettingsValues ==
    { [max_chunk_size |-> 3, chunk_overlap |-> 1],
      [max_chunk_size |-> 2, chunk_overlap |-> 1],
      [max_chunk_size |-> 40, chunk_overlap |-> 0] }

\* str.strip(): leading and trailing whitespace removed
RECURSIVE lstrip(_)
lstrip(s) == IF s # << >> /\ Head(s) \in Whitespace THEN lstrip(Tail(s)) ELSE s

RECURSIVE rstrip(_)
rstrip(s) ==
    IF s # << >> /\ s[Len(s)] \in Whitespace THEN rstrip(SubSeq(s, 1, Len(s) - 1)) ELSE s

strip(s) == rstrip(lstrip(s))

\* mutant: the slice takes one character more at its end
slice_end_inclusive(s, start, end) == SubSeq(s, start + 1, Min(end + 1, Len(s)))

\* s[start:end] for 0 <= start <= end
slice(s, start, end) == SubSeq(s, start + 1, Min(end, Len(s)))

\* the while loop of chunk_text from offset start, for chunk_size > overlap
RECURSIVE chunk_loop(_, _, _, _)
chunk_loop(s, chunk_size, overlap, start) ==
    IF start < Len(s)
    THEN LET end == start + chunk_size
             chunk == slice(s, start, end)
         IN << strip(chunk) >> \o chunk_loop(s, chunk_size, overlap, end - overlap)
    ELSE << >>

\* chunk_text(text, chunk_size, overlap) under the configured defaults cfg.
\* When the window does not advance (overlap >= chunk_size after the defaults
\* are filled in) on a non-empty text, the loop never ends.
chunk_text(s, chunk_size, overlap, cfg) ==
    LET size == or_default(chunk_size, cfg.max_chunk_size)
        over == or_default(overlap, cfg.chunk_overlap)
    IN IF Len(s) > 0 /\ size - over <= 0
       THEN [diverges |-> TRUE, chunks |-> << >>]
       ELSE [diverges |-> FALSE, chunks |-> chunk_loop(s, size, over, 0)]

\* (settings: the configuration in force when process ran, kept for the record)
NoPdfMeta ==
    [made |-> FALSE, total_chunks |-> 0, total_characters |-> 0,
     chunks |-> << >>, full_text |-> << >>,
     settings |-> [max_chunk_size |-> 0, chunk_overlap |-> 0]]

\* PDFProcessor.process on a file whose pages read as raw: extract_text strips
\* the joined pages, chunk_text is called with the defaults
pdf_process(raw, cfg) ==
    LET full == strip(raw)
        chunks == chunk_text(full, NoneInt, NoneInt, cfg).chunks
    IN [made |-> TRUE, total_chunks |-> Len(chunks), total_characters |-> Len(full),
        chunks |-> chunks, full_text |-> full, settings |-> cfg]

\* the deployment's configuration changes (between two calls)
Configure ==
    /\ \E cfg \in SettingsValues \ {settings} : settings' = cfg
    /\ UNCHANGED << ctxVars, wfVars, storeVars, text, chunkArgs, chunkCalls, pdfMeta, table, csvOut >>

\* chunk_text(text, chunk_size, overlap) is called under the current settings
ChunkText ==
    /\ settings \notin DOMAIN chunkCalls
    /\ chunkCalls' =
          (settings :> chunk_text(text, chunkArgs.chunk_size, chunkArgs.overlap, settings))
          @@ chunkCalls
    /\ UNCHANGED << ctxVars, wfVars, storeVars, settings, text, chunkArgs, pdfMeta, table, csvOut >>

\* PDFProcessor.process(file_path) on the file whose text is `text`
PdfProcess ==
    /\ chunkArgs = [chunk_size |-> NoneInt, overlap |-> NoneInt]
    /\ ~chunk_text(strip(text), NoneInt, NoneInt, settings).diverges
    /\ pdfMeta' = pdf_process(text, settings)
    /\ pdfMeta' # pdfMeta
    /\ UNCHANGED << ctxVars, wfVars, storeVars, settings, text, chunkArgs, chunkCalls, table, csvOut >>

(***************************************************************************)
(* CSVProcessor: analysis of a table and multi-strategy chunking.          *)
(***************************************************************************)
MaxCols == 2
MaxRows == 3

ColNames == << "c1", "c2", "c3", "c4" >>
ColName(i) == ColNames[i]

\* storage types of a DataFrame column
NumberDtypes == { "int64", "float64" }
Dtypes == NumberDtypes \cup { "object", "bool", "datetime64[ns]" }

\* a column of a table with nrows rows: its dtype, what its first non-null
\* value is to pd.to_datetime ("date" parses, "other" does not, "missing":
\* the column has no non-null value), whether pd.to_datetime takes the whole
\* column, and the number of distinct values
Columns(nrows) ==
    { c \in [dtype : Dtypes, first_value : {"date", "other", "missing"},
             all_parse : BOOLEAN, nunique : 0..nrows] :
        /\ (c.first_value = "missing") = (c.nunique = 0)
        /\ c.all_parse => (c.dtype = "object" /\ c.first_value = "date")
        /\ c.dtype # "object" =>
              /\ c.first_value # "date"
              /\ c.nunique = Min(nrows, 1) }

Tables ==
    UNION { [nrows : {r}, columns : UNION { [1..n -> Columns(r)] : n \in 1..MaxCols }] :
              r \in 0..MaxRows }

\* the names of the columns of df at the positions in keep, in column order
columns_where(df, keep) ==
    LET positions == [i \in 1..Len(df.columns) |-> i]
        kept == SelectSeq(positions, LAMBDA i : i \in keep)
    IN [k \in 1..Len(kept) |-> ColName(kept[k])]

is_number(c) == c.dtype \in NumberDtypes
is_object(c) == c.dtype = "object"

\* select_dtypes(include=['object'])
is_categorical(c) == is_object(c)

\* the date probe: an object column whose first non-null value parses
is_date(c) == c.dtype = "object" /\ c.first_value = "date"

\* analyze_data(df)
analyze_data(df) ==
    [shape |-> << df.nrows, Len(df.columns) >>,
     columns |-> columns_where(df, DOMAIN df.columns),
     numeric_columns |->
        columns_where(df, { i \in DOMAIN df.columns : is_number(df.columns[i]) }),
     categorical_columns |->
        columns_where(df, { i \in DOMAIN df.columns : is_categorical(df.columns[i]) }),
     date_columns |->
        columns_where(df, { i \in DOMAIN df.columns : is_date(df.columns[i]) })]

Max(a, b) == IF a > b THEN a ELSE b

Range(s) == { s[i] : i \in 1..Len(s) }

ColumnOf(df, name) == df.columns[CHOOSE i \in 1..Len(df.columns) : ColName(i) = name]

\* one chunk per element of a list of column names that is in keep
per_column_chunks(names, kind, keep) ==
    LET kept == SelectSeq(names, LAMBDA name : name \in keep)
    IN [k \in 1..Len(kept) |-> [kind |-> kind, col |-> kept[k], from |-> 0, to |-> 0]]

SimpleChunk(kind) == [kind |-> kind, col |-> "", from |-> 0, to |-> 0]

\* _create_statistical_chunks
statistical_chunks(analysis) ==
    IF analysis.numeric_columns = << >> THEN << >>
    ELSE (IF Len(analysis.numeric_columns) > 1 THEN << SimpleChunk("correlation") >>
          ELSE << >>)
         \o << SimpleChunk("summary_statistics") >>

\* _create_row_based_chunks from row offset start_idx
RECURSIVE row_based_chunks(_, _, _)
row_based_chunks(df, rows_per_chunk, start_idx) ==
    IF start_idx >= df.nrows THEN << >>
    ELSE << [kind |-> "rows", col |-> "", from |-> start_idx + 1,
             to |-> Min(start_idx + rows_per_chunk, df.nrows)] >>
         \o row_based_chunks(df, rows_per_chunk, start_idx + rows_per_chunk)

\* mutant: the estimate ignores the number of columns
rows_per_chunk_any_width(df, cfg) == Max(1, cfg.max_chunk_size \div 20)

\* rows_per_chunk of _create_row_based_chunks, self.chunk_size being
\* settings.max_chunk_size
rows_per_chunk(df, cfg) == Max(1, cfg.max_chunk_size \div (Len(df.columns) * 20))

\* _create_row_based_chunks(df) of a processor built under cfg
_create_row_based_chunks(df, cfg) == row_based_chunks(df, rows_per_chunk(df, cfg), 0)

\* _create_category_chunks
_create_category_chunks(df, analysis) ==
    per_column_chunks(analysis.categorical_columns, "category",
                      { col \in Range(analysis.categorical_columns) :
                          ColumnOf(df, col).nunique <= 50 })

\* mutant: the first date column that fails ends the loop
_create_timeseries_chunks_until_failure(df, analysis) ==
    LET dates == analysis.date_columns
        failing == { k \in 1..Len(dates) : ~ColumnOf(df, dates[k]).all_parse }
        done == IF failing = {} THEN Len(dates)
                ELSE (CHOOSE k \in failing : \A j \in failing : k <= j) - 1
    IN per_column_chunks(SubSeq(dates, 1, done), "timeseries", Range(dates))

\* _create_timeseries_chunks: a date column whose conversion raises is logged
\* and skipped
_create_timeseries_chunks(df, analysis) ==
    per_column_chunks(analysis.date_columns, "timeseries",
                      { col \in Range(analysis.date_columns) :
                          ColumnOf(df, col).all_parse })

\* mutant: the row chunks come before the statistical chunks
create_structured_chunks_rows_early(df, analysis, cfg) ==
    << SimpleChunk("overview") >>
    \o per_column_chunks(analysis.columns, "column", Range(analysis.columns))
    \o _create_row_based_chunks(df, cfg)
    \o statistical_chunks(analysis)
    \o _create_category_chunks(df, analysis)
    \o _create_timeseries_chunks(df, analysis)

\* create_structured_chunks(df, analysis) of a processor built under cfg
create_structured_chunks(df, analysis, cfg) ==
    << SimpleChunk("overview") >>
    \o per_column_chunks(analysis.columns, "column", Range(analysis.columns))
    \o statistical_chunks(analysis)
    \o _create_row_based_chunks(df, cfg)
    \o _create_category_chunks(df, analysis)
    \o _create_timeseries_chunks(df, analysis)

\* mutant: the tag is the zero-based position
csv_chunk_tag_zero_based(i) == << "[CSV_CHUNK_", i, "]" >>

\* the tag f"[CSV_CHUNK_{i+1}]" of the chunk enumerate() gives position i
csv_chunk_tag(i) == << "[CSV_CHUNK_", i + 1, "]" >>

NoCsvOut ==
    [made |-> FALSE, raised |-> FALSE, analysis |-> analyze_data([nrows |-> 0, columns |-> << >>]),
     chunks |-> << >>, total_chunks |-> 0, status |-> "None", document_id |-> "None"]

\* CSVProcessor.process: read_csv (which may raise), analyze_data,
\* create_structured_chunks, the tags
csv_process(df, read_ok, cfg) ==
    IF ~read_ok
    THEN [NoCsvOut EXCEPT !.made = TRUE, !.raised = TRUE]
    ELSE LET analysis == analyze_data(df)
             chunks == create_structured_chunks(df, analysis, cfg)
             enhanced_chunks == [k \in 1..Len(chunks) |->
                                    [tag |-> csv_chunk_tag(k - 1), body |-> chunks[k]]]
         IN [made |-> TRUE, raised |-> FALSE, analysis |-> analysis,
             chunks |-> enhanced_chunks, total_chunks |-> Len(enhanced_chunks),
             status |-> "None", document_id |-> "None"]

\* DocumentIngestionPipeline.process_document of a .csv file: the processor's
\* metadata with the document id and status 'processed', or the exception of
\* save_file or of the processor re-raised
csv_process_document(df, document_id, save_ok, read_ok, cfg) ==
    IF ~save_ok THEN [NoCsvOut EXCEPT !.made = TRUE, !.raised = TRUE]
    ELSE LET metadata == csv_process(df, read_ok, cfg)
         IN IF metadata.raised THEN metadata
            ELSE [metadata EXCEPT !.status = "processed", !.document_id = document_id]

NoTable == [nrows |-> 0, columns |-> << >>]

\* process_document on the .csv file holding `table`: save_file (an id is
\* generated and the file written, unless writing raises), CSVProcessor.process
\* and the document metadata
CsvProcess ==
    /\ table # NoTable
    /\ ~csvOut.made
    /\ nextId < MaxUploads
    /\ \E save_ok \in BOOLEAN, read_ok \in BOOLEAN :
          LET document_id == DocName(nextId + 1) IN
          /\ csvOut' = csv_process_document(table, document_id, save_ok, read_ok, settings)
          /\ saved_files' = IF save_ok THEN saved_files \cup {document_id} ELSE saved_files
    /\ nextId' = nextId + 1
    /\ UNCHANGED << ctxVars, wfVars, document_store, index, chatbot, uploadCall,
                    uploadResult, uploadLog, deleteResult, use_local_fallback,
                    settings, text, chunkArgs, chunkCalls, pdfMeta, table >>

(***************************************************************************)
(* Context assembly: _prepare_context_from_search_results of               *)
(* EnhancedFinancialChatbot (permanent knowledge and session documents)    *)
(* and of FinancialChatbot (one list of document fragments).  The context  *)
(* is "\n".join(context_parts): a sequence holding the parts with a "\n"   *)
(* between neighbours, the empty sequence being the empty string.  A part  *)
(* is a tuple of the pieces its f-string concatenates.                     *)
(***************************************************************************)
MaxPermanent == 4
MaxSession == 4
ContextExcerptLen == 500
PermanentTop == 3
SessionTop == 2
ListTop == 3

PermanentHeader == << "=== PERMANENT FINANCIAL KNOWLEDGE ===" >>
SessionHeader == << "=== USER UPLOADED DOCUMENTS ===" >>
ListHeader == << "=== RELEVANT DOCUMENT CONTENT ===" >>
BlankPart == << >>

\* a fragment's content of n characters
ContentOf(n) == [k \in 1..n |-> "x"]

\* fragments of the permanent knowledge base: content and metadata, the title
\* being optional
PermanentFragments ==
    { [content |-> ContentOf(1), metadata |-> [title |-> "Basics"]],
      [content |-> ContentOf(ContextExcerptLen), metadata |-> EmptyDict],
      [content |-> ContentOf(ContextExcerptLen + 1), metadata |-> [title |-> "Ratios"]] }

\* fragments of the documents uploaded in the session
SessionFragments ==
    { [content |-> ContentOf(2), metadata |-> [filename |-> "a.pdf"]],
      [content |-> ContentOf(ContextExcerptLen + 2), metadata |-> EmptyDict] }

SeqsUpTo(S, n) == UNION { [1..k -> S] : k \in 0..n }

\* what hybrid_kb.search_knowledge returns
SearchResults ==
    [permanent_results : SeqsUpTo(PermanentFragments, MaxPermanent),
     session_results : SeqsUpTo(SessionFragments, MaxSession)]

\* results[:n] without the cut
top_uncut(results, n) == results

\* results[:n]
top(results, n) == slice(results, 0, n)

\* "\n".join(parts)
join_lines(parts) ==
    [k \in 1..(IF parts = << >> THEN 0 ELSE 2 * Len(parts) - 1) |->
        IF k % 2 = 1 THEN parts[(k + 1) \div 2] ELSE "\n"]

\* f"Content: {result['content'][:500]}..."
content_part(result) ==
    << "Content: ", slice(result.content, 0, ContextExcerptLen), "..." >>

\* f"Source: {result['metadata'].get(key, 'Unknown')}"
source_part(result, key) ==
    << "Source: ", dict_get(result.metadata, key, "Unknown") >>

RECURSIVE section_parts(_, _)
\* the body of one section's for loop: source, content and a blank part for
\* each result
section_parts(results, key) ==
    IF results = << >> THEN << >>
    ELSE << source_part(Head(results), key), content_part(Head(results)), BlankPart >>
         \o section_parts(Tail(results), key)

\* EnhancedFinancialChatbot._prepare_context_from_search_results
_prepare_context_from_search_results(results) ==
    LET permanent ==
            IF results.permanent_results # << >>
            THEN << PermanentHeader >>
                 \o section_parts(top(results.permanent_results, PermanentTop), "title")
            ELSE << >>
        session ==
            IF results.session_results # << >>
            THEN << SessionHeader >>
                 \o section_parts(top(results.session_results, SessionTop), "filename")
            ELSE << >>
    IN  join_lines(permanent \o session)

RECURSIVE list_parts(_)
\* the body of FinancialChatbot's for loop: content and a blank part for each
\* result
list_parts(results) ==
    IF results = << >> THEN << >>
    ELSE << content_part(Head(results)), BlankPart >> \o list_parts(Tail(results))

\* FinancialChatbot._prepare_context_from_search_results
FinancialChatbot_prepare_context_from_search_results(results) ==
    IF results = << >> THEN << >>
    ELSE join_lines(<< ListHeader >> \o list_parts(top(results, ListTop)))

NoContext == [by |-> "none", text |-> << >>]

\* EnhancedFinancialChatbot assembles the context of the search results
PrepareContext ==
    /\ context.by = "none"
    /\ context' = [by |-> "EnhancedFinancialChatbot",
                   text |-> _prepare_context_from_search_results(search_results)]
    /\ UNCHANGED << wfVars, storeVars, procVars, search_results >>

\* FinancialChatbot assembles the context of the session documents' fragments
PrepareContextFromList ==
    /\ context.by = "none"
    /\ context' = [by |-> "FinancialChatbot",
                   text |-> FinancialChatbot_prepare_context_from_search_results(
                                search_results.session_results)]
    /\ UNCHANGED << wfVars, storeVars, procVars, search_results >>

InitContextIdle ==
    /\ search_results = [permanent_results |-> << >>, session_results |-> << >>]
    /\ context = NoContext

\* the processors are idle: nothing chunked, nothing analysed
InitProcIdle ==
    /\ settings \in { cfg \in SettingsValues : cfg.max_chunk_size = 3 }
    /\ text = << >>
    /\ chunkArgs = [chunk_size |-> NoneInt, overlap |-> NoneInt]
    /\ chunkCalls = EmptyDict
    /\ pdfMeta = NoPdfMeta
    /\ table = NoTable
    /\ csvOut = NoCsvOut
    /\ InitContextIdle

(***************************************************************************)
(* Specifications.                                                         *)
(***************************************************************************)
InitRequestIdle ==
    /\ pc = "idle"
    /\ entry = "none"
    /\ request = IdleRequest
    /\ state = initial_state(IdleRequest)
    /\ nodesRun = << >>
    /\ llmCalls = 0
    /\ retrieval = NoRetrieval
    /\ failedAt = {}
    /\ graphExc = None
    /\ wfResult = NoResult
    /\ chatResult = NoResult
    /\ httpStatus = 0

DocIndex(d) == CHOOSE i \in 1..Len(DocNames) : DocNames[i] = d
DocsUpTo(k) == { DocName(i) : i \in 1..k }

\* Init of the query side: k text documents are already ingested, document i
\* with sizes[i] chunks (a document without chunks is not added to the index)
Init ==
    /\ InitRequestIdle
    /\ variant \in {"backend", "root"}
    /\ chatbot = "LangGraphChatbot"
    /\ \E k \in 0..MaxUploads : \E sizes \in [1..k -> 0..MaxChunks] :
          /\ nextId = k
          /\ document_store =
                [d \in DocsUpTo(k) |->
                    [document_id |-> d, suffix |-> SuffixPdf, file_type |-> "pdf",
                     total_chunks |-> sizes[DocIndex(d)], status |-> "processed"]]
          /\ index = [d \in { x \in DocsUpTo(k) : sizes[DocIndex(x)] > 0 } |->
                         [n |-> sizes[DocIndex(d)], file_type |-> "pdf"]]
          /\ saved_files = DocsUpTo(k)
          /\ uploadLog = [d \in DocsUpTo(k) |-> "processed"]
    /\ uploadCall = NoUploadCall
    /\ uploadResult = ErrorUploadResponse
    /\ deleteResult = NoDeleteCall
    /\ use_local_fallback \in BOOLEAN
    /\ InitProcIdle

Next ==
    \/ ProcessRequest
    \/ Chat
    \/ RouterNode
    \/ RouteDecision
    \/ RagAgentNode
    \/ SummarizationAgentNode
    \/ McqAgentNode
    \/ ErrorHandlerNode
    \/ ProcessRequestReturn
    \/ ChatReturn
    \/ Finish

Spec == Init /\ [][Next]_vars

\* Init of the ingestion side: a fresh chatbot, nothing uploaded
InitDocs ==
    /\ InitRequestIdle
    /\ variant \in {"backend", "root"}
    /\ chatbot \in {"LangGraphChatbot", "FinancialChatbot", "EnhancedFinancialChatbot"}
    /\ variant = "root" => chatbot = "EnhancedFinancialChatbot"
    /\ nextId = 0
    /\ document_store = EmptyDict
    /\ index = EmptyDict
    /\ saved_files = {}
    /\ uploadLog = EmptyDict
    /\ uploadCall = NoUploadCall
    /\ uploadResult = ErrorUploadResponse
    /\ deleteResult = NoDeleteCall
    /\ use_local_fallback = FALSE
    /\ InitProcIdle

NextDocs ==
    \/ UploadDocument
    \/ DeleteDocument

SpecDocs == InitDocs /\ [][NextDocs]_vars

\* nothing uploaded, no request in progress
InitStoresIdle ==
    /\ InitRequestIdle
    /\ variant = "backend"
    /\ chatbot = "LangGraphChatbot"
    /\ nextId = 0
    /\ document_store = EmptyDict
    /\ index = EmptyDict
    /\ saved_files = {}
    /\ uploadLog = EmptyDict
    /\ uploadCall = NoUploadCall
    /\ uploadResult = ErrorUploadResponse
    /\ deleteResult = NoDeleteCall
    /\ use_local_fallback = FALSE

\* Init of the chunking side: a text and the arguments of chunk_text
InitChunk ==
    /\ InitStoresIdle
    /\ settings \in SettingsValues
    /\ text \in Texts
    /\ chunkArgs \in [chunk_size : ChunkSizeArgs, overlap : OverlapArgs]
    /\ chunkCalls = EmptyDict
    /\ pdfMeta = NoPdfMeta
    /\ table = NoTable
    /\ csvOut = NoCsvOut
    /\ InitContextIdle

NextChunk ==
    \/ Configure
    \/ ChunkText
    \/ PdfProcess

SpecChunk == InitChunk /\ [][NextChunk]_vars

\* Init of the tabular side: a table read from a CSV file
InitCsv ==
    /\ InitStoresIdle
    /\ settings \in SettingsValues
    /\ text = << >>
    /\ chunkArgs = [chunk_size |-> NoneInt, overlap |-> NoneInt]
    /\ chunkCalls = EmptyDict
    /\ pdfMeta = NoPdfMeta
    /\ table \in Tables
    /\ csvOut = NoCsvOut
    /\ InitContextIdle

NextCsv == CsvProcess

SpecCsv == InitCsv /\ [][NextCsv]_vars

\* Init of context assembly: the fragments a knowledge search returned
InitContext ==
    /\ InitStoresIdle
    /\ settings \in { cfg \in SettingsValues : cfg.max_chunk_size = 3 }
    /\ text = << >>
    /\ chunkArgs = [chunk_size |-> NoneInt, overlap |-> NoneInt]
    /\ chunkCalls = EmptyDict
    /\ pdfMeta = NoPdfMeta
    /\ table = NoTable
    /\ csvOut = NoCsvOut
    /\ search_results \in SearchResults
    /\ context = NoContext

NextContext ==
    \/ PrepareContext
    \/ PrepareContextFromList

SpecContext == InitContext /\ [][NextContext]_vars

(***************************************************************************)
(* Properties.                                                             *)
(***************************************************************************)
\* process_request was called for the current request and is over
ProcessRequestOver ==
    /\ pc \in {"done", "chat_return"}
    /\ ~(entry = "chat" /\ is_blank(request.message.text))

RouterRan == Len(nodesRun) >= 1 /\ nodesRun[1] = "router"

NodeRan(node) == Len(nodesRun) = 2 /\ nodesRun[2] = node

ExplicitStrategy == truthy(request.agent_type)

\* C1: process_request never raises; whatever the request and whatever fails
\* (the request's attributes, routing, retrieval, synthesis, the graph run),
\* it returns a FinancialResponse.
C1_ProcessRequestNeverRaises ==
    /\ wfResult.kind # "raised"
    /\ ProcessRequestOver =>
          /\ wfResult.kind = "returned"
          /\ wfResult.agent_type # None
          /\ (failedAt \cap {"request", "graph"} # {} =>
                 /\ wfResult.agent_type = "error"
                 /\ "error" \in DOMAIN wfResult.metadata)

\* C1 witness: the graph run raised (the routing key has no edge) and
\* process_request still returned a response.
C1_Witness ==
    /\ pc = "done"
    /\ entry = "process_request"
    /\ graphExc # None
    /\ wfResult.kind = "returned"
    /\ wfResult.agent_type = "error"

\* C2 (as claimed): a chat request with a non-empty message whose processing
\* fails at some stage is answered 200 with a ChatResponse carrying the
\* apology and an 'error' field in metadata; process_chat_message never
\* raises and POST /chat never answers with an HTTP error.
C2_ChatFailureIsNormalResponse ==
    (/\ pc = "done"
     /\ entry = "chat"
     /\ ~is_blank(request.message.text)
     /\ failedAt # {})
    => /\ chatResult.kind = "returned"
       /\ httpStatus = 200
       /\ "error" \in DOMAIN chatResult.metadata

\* C3: when the request carries an explicit strategy and the message is a
\* string, the router selects exactly that strategy whatever keywords the
\* message holds, and the node that then runs is the one the graph maps that
\* strategy to.
C3_ExplicitStrategyWins ==
    (RouterRan /\ ExplicitStrategy /\ request.message.is_str)
    => /\ state.next_agent = request.agent_type
       /\ (Len(nodesRun) = 2 =>
              /\ request.agent_type \in DOMAIN ConditionalEdges(variant)
              /\ nodesRun[2] = ConditionalEdges(variant)[request.agent_type])
       /\ (/\ pc \in {"return", "chat_return", "done"}
           /\ request.agent_type \in DOMAIN ConditionalEdges(variant))
          => Len(nodesRun) = 2

\* C3 witness: explicit 'mcq' with a message containing 'summary' ran the
\* quiz node.
C3_Witness ==
    /\ request.agent_type = "mcq"
    /\ request.message.is_str
    /\ contains(<<"s", "u", "m", "m", "a", "r", "y">>, lower(request.message.text))
    /\ NodeRan("mcq_agent")

\* the route the keyword rule gives a lower-cased message, in the order
\* summarization cues, quiz cues, answering (backend cue lists)
KeywordRoute(message) ==
    IF \E cue \in SummarizationKeywords("backend") : contains(cue, message)
    THEN "summarization"
    ELSE IF \E cue \in McqKeywords("backend") : contains(cue, message)
    THEN "mcq"
    ELSE "q&a"

\* C4: with no explicit strategy and a string message, the backend router
\* selects summarization when the lower-cased message contains a
\* summarization cue, otherwise mcq when it contains a quiz cue, otherwise
\* q&a; a message with both 'summary' and 'quiz' goes to summarization.
C4_KeywordRouting ==
    (variant = "backend" /\ RouterRan /\ ~ExplicitStrategy /\ request.message.is_str)
    => /\ state.next_agent = KeywordRoute(lower(request.message.text))
       /\ (request.message.text = MsgSummaryQuiz => state.next_agent = "summarization")
       /\ (request.message.text = MsgQuizMe => state.next_agent = "mcq")
       /\ (request.message.text = MsgRevenue => state.next_agent = "q&a")
       /\ (Len(nodesRun) = 2 =>
              nodesRun[2] = ConditionalEdges(variant)[state.next_agent])

\* C4 witness: the message 'summary quiz' without explicit strategy ran the
\* summarization node of the backend workflow.
C4_Witness ==
    /\ variant = "backend"
    /\ ~ExplicitStrategy
    /\ request.message.text = MsgSummaryQuiz
    /\ NodeRan("summarization_agent")

\* the external capabilities did what they were asked for this request
CapabilitiesWorked == failedAt \cap {"retrieval", "synthesis"} = {}

\* C5 (as claimed): through process_request of the backend workflow, the
\* message 'Please summarize this document' without explicit strategy, with
\* chunks of an ingested document in the store and working capabilities,
\* runs the summarization node, invokes synthesis exactly once and returns
\* exactly one source, tagged type 'summary'.
C5_SummarizeEndToEnd ==
    (/\ pc = "done"
     /\ entry = "process_request"
     /\ variant = "backend"
     /\ request.message.is_str
     /\ request.message.text = MsgSummarizeDoc
     /\ ~ExplicitStrategy
     /\ Len(get_all_chunks(index)) >= 1
     /\ CapabilitiesWorked)
    => /\ NodeRan("summarization_agent")
       /\ llmCalls = 1
       /\ Len(wfResult.sources) = 1
       /\ "type" \in DOMAIN wfResult.sources[1]
       /\ wfResult.sources[1].type = "summary"

\* C6: when the answering node's retrieval returns zero fragments, synthesis
\* is not invoked for the request, the response is the fixed
\* no-relevant-information message and the sources list is empty.
C6_ZeroFragmentShortCircuit ==
    (/\ NodeRan("rag_agent")
     /\ ~retrieval.raised
     /\ Len(retrieval.chunks) = 0)
    => /\ llmCalls = 0
       /\ state.response = NoInfoMsg
       /\ Len(state.sources) = 0
       /\ (ProcessRequestOver =>
              /\ wfResult.response = NoInfoMsg
              /\ Len(wfResult.sources) = 0)

\* C6 witness: the answering node ran on a store that holds chunks, retrieval
\* returned nothing, and process_request returned the fixed message.
C6_Witness ==
    /\ pc = "done"
    /\ NodeRan("rag_agent")
    /\ retrieval.called
    /\ ~retrieval.raised
    /\ Len(retrieval.chunks) = 0
    /\ Len(get_all_chunks(index)) >= 1
    /\ wfResult.response = NoInfoMsg

\* the fixed nothing-found message of a backend document node
NothingFoundMsg(node) ==
    IF node = "summarization_agent"
    THEN << "No document content found for summarization. Please upload a document first." >>
    ELSE << "No document content found for MCQ generation. Please upload a document first." >>

\* C7: in the summarizing and quizzing nodes of the backend workflow, when the
\* store holds no chunks synthesis is not invoked, the response is the node's
\* fixed nothing-found message and the sources list is empty; synthesis is
\* invoked only when the store holds at least one chunk.
C7_NoChunksShortCircuit ==
    \A node \in {"summarization_agent", "mcq_agent"} :
        (variant = "backend" /\ NodeRan(node))
        => /\ (llmCalls > 0 => Len(get_all_chunks(index)) >= 1)
           /\ llmCalls <= 1
           /\ (Len(get_all_chunks(index)) = 0 /\ ~retrieval.raised)
              => /\ llmCalls = 0
                 /\ state.response = NothingFoundMsg(node)
                 /\ Len(state.sources) = 0
                 /\ (ProcessRequestOver =>
                        /\ wfResult.response = NothingFoundMsg(node)
                        /\ Len(wfResult.sources) = 0)

\* C7 witness: the quizzing node of the backend workflow ran on an empty
\* store and answered with its fixed message without synthesis.
C7_Witness ==
    /\ variant = "backend"
    /\ NodeRan("mcq_agent")
    /\ Len(get_all_chunks(index)) = 0
    /\ ~retrieval.raised
    /\ llmCalls = 0
    /\ state.response = NothingFoundMsg("mcq_agent")

NodeApologies == { RagErrorMsg, SummaryErrorMsg, McqErrorMsg }

\* C8 (as claimed): whenever retrieval or synthesis raises inside a state
\* node, the response returned for the request carries an 'error' field in
\* its metadata together with the node's apology, in every workflow variant.
C8_NodeFailureCarriesError ==
    (/\ pc = "done"
     /\ entry = "process_request"
     /\ Len(nodesRun) = 2
     /\ ~CapabilitiesWorked)
    => /\ wfResult.kind = "returned"
       /\ wfResult.response \in NodeApologies
       /\ "error" \in DOMAIN wfResult.metadata

\* the upload that has just returned had every step succeed on a supported file
UploadSucceeded ==
    /\ uploadCall.made
    /\ get_file_type(uploadCall.suffix) \in {"pdf", "csv"}
    /\ uploadCall.save_ok
    /\ ~uploadCall.process.raised
    /\ (uploadCall.process.n > 0 => uploadCall.add_ok)

\* C9 (as claimed): for a .pdf or .csv file (any letter case) whose
\* extraction, chunking and index add succeed, upload_document returns status
\* 'processed' with the fresh document id, the file's kind and its chunk
\* count, and list_documents lists the document.
C9_UploadProcessed ==
    UploadSucceeded
    => /\ uploadResult.status = "processed"
       /\ uploadResult.document_id = uploadCall.document_id
       /\ uploadResult.document_type = get_file_type(uploadCall.suffix)
       /\ uploadResult.total_chunks = uploadCall.process.n
       /\ \E doc \in list_documents(document_store) :
             doc.document_id = uploadCall.document_id

\* C10 (as claimed): an upload that returned status 'error' leaves nothing
\* behind: its document is not in the document store and it has no chunk in
\* the index, after any sequence of uploads and deletes.
C10_FailedUploadLeavesNothing ==
    \A d \in DOMAIN uploadLog :
        uploadLog[d] = "error"
        => /\ d \notin DOMAIN document_store
           /\ get_document_info(document_store, d) = None
           /\ d \notin DOMAIN index

\* C11 (as claimed): an upload of a file with an unsupported extension fails
\* before any other ingestion step has had an effect: no file was saved under
\* the id generated for it, and the document store and the index hold nothing
\* for it.
C11_UnsupportedFailsFast ==
    (uploadCall.made /\ get_file_type(uploadCall.suffix) = Unsupported)
    => /\ uploadResult.status = "error"
       /\ uploadCall.document_id \notin saved_files
       /\ uploadCall.document_id \notin DOMAIN document_store
       /\ uploadCall.document_id \notin DOMAIN index

\* C12 (as claimed): when delete_document(id) returns true, no chunk of id
\* remains in the index and id is no longer listed; when the index deletion
\* raised, the document is not reported as deleted.
C12_DeleteReportsIndexRemoval ==
    deleteResult.made
    => /\ (deleteResult.returned =>
              /\ deleteResult.document_id \notin DOMAIN index
              /\ \A doc \in list_documents(document_store) :
                    doc.document_id # deleteResult.document_id)
       /\ (deleteResult.outcome = "raised" => ~deleteResult.returned)

\* chunk_text was passed both arguments explicitly, with 0 <= overlap < chunk_size
ExplicitValidArgs ==
    /\ ~chunkArgs.chunk_size.is_none
    /\ ~chunkArgs.overlap.is_none
    /\ 0 <= chunkArgs.overlap.value
    /\ chunkArgs.overlap.value < chunkArgs.chunk_size.value

\* C13 (as claimed): for explicitly passed (chunk_size, overlap) with
\* 0 <= overlap < chunk_size (overlap = 0 included), every call of chunk_text
\* on the same text returns the identical chunk sequence, whatever the
\* configured defaults are at the time of the call.
C13_ChunkingPureFunction ==
    ExplicitValidArgs
    => \A cfg1 \in DOMAIN chunkCalls, cfg2 \in DOMAIN chunkCalls :
          /\ ~chunkCalls[cfg1].diverges
          /\ chunkCalls[cfg1] = chunkCalls[cfg2]

RECURSIVE TotalLen(_)
TotalLen(chunks) ==
    IF chunks = << >> THEN 0 ELSE Len(Head(chunks)) + TotalLen(Tail(chunks))

\* the configured parameters are valid: 0 <= chunk_overlap < max_chunk_size
ValidSettings(cfg) == 0 <= cfg.chunk_overlap /\ cfg.chunk_overlap < cfg.max_chunk_size

\* C14 (as claimed): for a text document ingested with valid parameters, the
\* sum of the lengths of all its chunks is at most the length of the
\* extracted text.
C14_ChunkTotalBounded ==
    (pdfMeta.made /\ ValidSettings(pdfMeta.settings))
    => TotalLen(pdfMeta.chunks) <= pdfMeta.total_characters

\* C14 (amended): for a text document ingested with valid parameters, the sum
\* of the lengths of its chunks is at most the length of the extracted text
\* plus `overlap` characters for every chunk after the first, and no chunk is
\* longer than chunk_size.
C14_ChunkTotalBoundedByOverlap ==
    (pdfMeta.made /\ ValidSettings(pdfMeta.settings))
    => /\ TotalLen(pdfMeta.chunks)
          <= pdfMeta.total_characters
             + pdfMeta.settings.chunk_overlap * Max(pdfMeta.total_chunks - 1, 0)
       /\ pdfMeta.total_chunks = Len(pdfMeta.chunks)
       /\ \A i \in 1..Len(pdfMeta.chunks) :
             Len(pdfMeta.chunks[i]) <= pdfMeta.settings.max_chunk_size

\* C14 witness: an ingested text whose chunks overlap, so that their total
\* length exceeds the length of the text.
C14_Witness ==
    /\ pdfMeta.made
    /\ pdfMeta.settings.chunk_overlap > 0
    /\ pdfMeta.total_chunks >= 2
    /\ TotalLen(pdfMeta.chunks) > pdfMeta.total_characters

\* ceil(a / b) for a >= 0, b > 0
CeilDiv(a, b) == (a + b - 1) \div b

Abs(x) == IF x < 0 THEN 0 - x ELSE x

\* C15 (as claimed): for passed (chunk_size, overlap) with
\* 0 <= overlap < chunk_size, chunk_text returns, and the number of chunks
\* differs by at most 1 from ceil(len(text) / (chunk_size - overlap)) computed
\* with the passed values.
C15_ChunkCount ==
    ExplicitValidArgs
    => \A cfg \in DOMAIN chunkCalls :
          /\ ~chunkCalls[cfg].diverges
          /\ Abs(Len(chunkCalls[cfg].chunks)
                 - CeilDiv(Len(text),
                           chunkArgs.chunk_size.value - chunkArgs.overlap.value)) <= 1

\* chunk[overlap:]
drop_first(chunk, n) == SubSeq(chunk, n + 1, Len(chunk))

\* the chunks joined after dropping the first n characters of every chunk
\* but the first
RECURSIVE JoinWithoutOverlap(_, _, _)
JoinWithoutOverlap(chunks, n, i) ==
    IF i > Len(chunks) THEN << >>
    ELSE (IF i = 1 THEN chunks[i] ELSE drop_first(chunks[i], n))
         \o JoinWithoutOverlap(chunks, n, i + 1)

\* C16 (as claimed): for valid (chunk_size, overlap), concatenating the chunks
\* of chunk_text after dropping from each chunk other than the first its
\* first `overlap` characters gives a string as long as the text with its
\* leading and trailing whitespace removed.
C16_ReconstructedLength ==
    ExplicitValidArgs
    => \A cfg \in DOMAIN chunkCalls :
          /\ ~chunkCalls[cfg].diverges
          /\ Len(JoinWithoutOverlap(chunkCalls[cfg].chunks, chunkArgs.overlap.value, 1))
             = Len(strip(text))

\* C17 (as claimed): the numeric, categorical and date column lists of
\* analyze_data are pairwise disjoint and their union is the column set of
\* the table.
C17_ColumnPartition ==
    (csvOut.made /\ ~csvOut.raised)
    => LET numeric == Range(csvOut.analysis.numeric_columns)
           categorical == Range(csvOut.analysis.categorical_columns)
           date == Range(csvOut.analysis.date_columns)
       IN /\ numeric \cap categorical = {}
          /\ numeric \cap date = {}
          /\ categorical \cap date = {}
          /\ numeric \cup categorical \cup date = Range(csvOut.analysis.columns)

\* C18: in the chunks CSVProcessor.process returns, the chunk at 1-based
\* position i carries the tag [CSV_CHUNK_i]: the tags are distinct and
\* consecutive from 1 to total_chunks, and total_chunks is the number of
\* chunks, also when a time-series chunk was skipped after a failure.
C18_CsvChunkTags ==
    (csvOut.made /\ ~csvOut.raised)
    => /\ csvOut.total_chunks = Len(csvOut.chunks)
       /\ csvOut.total_chunks >= 1
       /\ \A i \in 1..Len(csvOut.chunks) :
             csvOut.chunks[i].tag = << "[CSV_CHUNK_", i, "]" >>
       /\ \A i, j \in 1..Len(csvOut.chunks) :
             csvOut.chunks[i].tag = csvOut.chunks[j].tag => i = j

\* C18 witness: a table with a date column whose time-series chunk was
\* skipped (the column as a whole does not parse) has been processed, and its
\* last chunk carries the tag of its position.
C18_Witness ==
    /\ csvOut.made
    /\ ~csvOut.raised
    /\ \E i \in 1..Len(table.columns) :
          is_date(table.columns[i]) /\ ~table.columns[i].all_parse
    /\ \A i \in 1..Len(csvOut.chunks) : csvOut.chunks[i].body.kind # "timeseries"
    /\ csvOut.total_chunks >= 3
    /\ csvOut.chunks[csvOut.total_chunks].tag = << "[CSV_CHUNK_", csvOut.total_chunks, "]" >>

StateNodes == { "rag_agent", "summarization_agent", "mcq_agent", "error_handler" }

\* C19 (as claimed): every run of the graph executes the router first and
\* once, then exactly one of the four state nodes, then ends; no node runs
\* twice and a failure inside a state node does not lead to the error node.
C19_RouterThenOneStateNode ==
    /\ Len(nodesRun) <= 2
    /\ (Len(nodesRun) >= 1 => nodesRun[1] = "router")
    /\ (Len(nodesRun) = 2 => nodesRun[2] \in StateNodes)
    /\ (pc = "return" => Len(nodesRun) = 2)
    /\ (~CapabilitiesWorked => (Len(nodesRun) = 2 /\ nodesRun[2] # "error_handler"))

\* C20: when the routing rule raises (the message is not a string), the
\* router records the exception message in state.error, the node that runs
\* next is the error handler and no strategy node runs, and the response is
\* built from the recorded message with agent_type 'error' and no sources;
\* the error handler never raises, also when no error message was recorded.
C20_RouterFailureGoesToErrorHandler ==
    /\ (RouterRan /\ ~request.message.is_str)
       => /\ state.error = NotStrError
          /\ pc \notin StateNodes \ {"error_handler"}
          /\ (pc \in {"return", "chat_return", "done"} => NodeRan("error_handler"))
          /\ (ProcessRequestOver =>
                 /\ wfResult.kind = "returned"
                 /\ wfResult.response = RequestErrorMsg(NotStrError)
                 /\ wfResult.agent_type = "error"
                 /\ wfResult.sources = << >>)
    /\ NodeRan("error_handler")
       => /\ graphExc = None
          /\ state.response = RequestErrorMsg(state.error)
          /\ state.sources = << >>
          /\ (ProcessRequestOver =>
                 /\ wfResult.kind = "returned"
                 /\ wfResult.agent_type = "error"
                 /\ wfResult.response = RequestErrorMsg(state.error))

\* C20 witness: a request whose message is not a string went through the
\* router and the error handler, and process_request returned the error
\* response.
C20_Witness ==
    /\ pc = "done"
    /\ ~request.message.is_str
    /\ nodesRun = << "router", "error_handler" >>
    /\ wfResult.agent_type = "error"
    /\ wfResult.response = RequestErrorMsg(NotStrError)

\* C21 (as claimed): when the request carries a document scope, every
\* fragment the answering node retrieved and every source of the response
\* belongs to that document.
C21_RetrievalScopedToDocument ==
    (/\ NodeRan("rag_agent")
     /\ ~retrieval.raised
     /\ truthy(request.document_id))
    => /\ \A i \in 1..Len(retrieval.chunks) :
             retrieval.chunks[i].metadata.document_id = request.document_id
       /\ \A i \in 1..Len(state.sources) :
             state.sources[i].metadata.document_id = request.document_id

\* the answering node retrieved at least one fragment for this request
RagRetrievedFragments ==
    /\ NodeRan("rag_agent")
    /\ ~retrieval.raised
    /\ Len(retrieval.chunks) >= 1

\* the sources list has one entry per retrieved fragment, in retrieval order,
\* each with the fragment's metadata, 1 - distance and the excerpt of its
\* content
SourcesMatchFragments ==
    /\ Len(state.sources) = Len(retrieval.chunks)
    /\ \A i \in 1..Len(retrieval.chunks) :
          LET chunk == retrieval.chunks[i]
              source == state.sources[i]
          IN /\ source.metadata = chunk.metadata
             /\ source.relevance_score = 1 - chunk.distance
             /\ Len(chunk.content) <= 200 => source.content = chunk.content
             /\ Len(chunk.content) > 200 =>
                   /\ Len(source.content) = 203
                   /\ SubSeq(source.content, 1, 200) = SubSeq(chunk.content, 1, 200)
                   /\ SubSeq(source.content, 201, 203) = << ".", ".", "." >>

\* C24 (as claimed): whenever the answering node retrieved at least one
\* fragment, the sources list has one entry per fragment in retrieval order;
\* entry i carries fragment i's metadata, relevance_score = 1 - distance of
\* fragment i, and the fragment's content when it has at most 200 characters,
\* otherwise its first 200 characters followed by '...'.
C24_SourcesPerFragmentAlways ==
    RagRetrievedFragments => SourcesMatchFragments

\* C24 (amended): when the answering node retrieved at least one fragment and
\* the synthesis call returned, the sources list has one entry per fragment
\* in retrieval order; entry i carries fragment i's metadata, relevance_score
\* = 1 - distance of fragment i, and the fragment's content when it has at
\* most 200 characters, otherwise its first 200 characters followed by '...';
\* when the synthesis call raised, the sources list is empty and the response
\* is the node's apology; process_request returns that list in both cases.
C24_SourcesPerFragment ==
    RagRetrievedFragments
    => /\ llmCalls = 1
       /\ ("synthesis" \notin failedAt => SourcesMatchFragments)
       /\ ("synthesis" \in failedAt =>
              /\ state.sources = << >>
              /\ state.response = RagErrorMsg)
       /\ (ProcessRequestOver /\ graphExc = None => wfResult.sources = state.sources)

\* C24 witness: a response whose first source is a fragment of exactly 200
\* characters, kept whole, and whose second source is a longer fragment, cut
\* and marked, with relevance 1 - 1 = 0.
C24_Witness ==
    /\ pc = "done"
    /\ NodeRan("rag_agent")
    /\ Len(wfResult.sources) >= 2
    /\ Len(retrieval.chunks[1].content) = 200
    /\ wfResult.sources[1].content = retrieval.chunks[1].content
    /\ Len(retrieval.chunks[2].content) = 201
    /\ Len(wfResult.sources[2].content) = 203
    /\ wfResult.sources[2].relevance_score = 0

\* the sequence the fixed-window algorithm gives for (chunk_size, overlap):
\* element k (from 0) is the trimmed window of chunk_size characters that
\* starts at offset k * (chunk_size - overlap), for every such offset below
\* len(text)
WindowChunks(s, chunk_size, overlap) ==
    LET step == chunk_size - overlap
        count == CeilDiv(Len(s), step)
    IN [k \in 1..count |->
           strip(SubSeq(s, (k - 1) * step + 1, Min((k - 1) * step + chunk_size, Len(s))))]

\* C22 (as claimed): for passed (chunk_size, overlap) with
\* 0 <= overlap < chunk_size, chunk_text returns exactly the trimmed windows
\* text[k*(chunk_size-overlap) : k*(chunk_size-overlap)+chunk_size] for every
\* k with k*(chunk_size-overlap) < len(text), using the passed overlap as
\* given; the empty text gives the empty sequence.
C22_ChunkTextWindows ==
    ExplicitValidArgs
    => \A cfg \in DOMAIN chunkCalls :
          /\ chunkCalls[cfg].chunks
             = WindowChunks(text, chunkArgs.chunk_size.value, chunkArgs.overlap.value)
          /\ (text = << >> => chunkCalls[cfg].chunks = << >>)

\* C23 (as claimed): chunk_text terminates for every text and every passed
\* (chunk_size, overlap) with 0 <= overlap < chunk_size, whatever the
\* configured defaults are.
C23_ChunkTextTerminates ==
    \A cfg \in DOMAIN chunkCalls :
        ExplicitValidArgs => ~chunkCalls[cfg].diverges

\* C30 (as claimed): for valid (chunk_size, overlap), passed or configured,
\* every chunk chunk_text returns has at least one character, also the chunks
\* of an ingested text document.
C30_NoEmptyChunk ==
    /\ \A cfg \in DOMAIN chunkCalls :
          (~chunkCalls[cfg].diverges
           /\ or_default(chunkArgs.overlap, cfg.chunk_overlap)
              < or_default(chunkArgs.chunk_size, cfg.max_chunk_size))
          => \A i \in 1..Len(chunkCalls[cfg].chunks) : Len(chunkCalls[cfg].chunks[i]) >= 1
    /\ pdfMeta.made => \A i \in 1..Len(pdfMeta.chunks) : Len(pdfMeta.chunks[i]) >= 1

(***************************************************************************)
(* Context assembly.                                                       *)
(***************************************************************************)
\* the parts a context string was joined from
PartsOf(joined) == [k \in 1..((Len(joined) + 1) \div 2) |-> joined[2 * k - 1]]

IsContentPart(p) == Len(p) = 3 /\ p[1] = "Content: "

ContentParts(parts) == SelectSeq(parts, IsContentPart)

Occurrences(parts, p) == Cardinality({ k \in 1..Len(parts) : parts[k] = p })

FirstN(s, n) == SubSeq(s, 1, Min(n, Len(s)))

\* the content parts are those of the fragments used, in order, each holding at
\* most ContextExcerptLen leading characters of the content and then the marker
ContentPartsAre(parts, used) ==
    LET cp == ContentParts(parts)
    IN  /\ Len(cp) = Len(used)
        /\ \A k \in 1..Len(cp) :
              /\ cp[k][2] = FirstN(used[k].content, ContextExcerptLen)
              /\ cp[k][3] = "..."

\* C25: context assembly returns the empty string when there are no fragments;
\* otherwise the context holds the content of the first 3 permanent-knowledge
\* fragments and then of the first 2 session fragments and of no other, in
\* retrieval order, the permanent section before the session section, each
\* section's header exactly when that section has a fragment, and of every
\* fragment at most 500 characters of content followed by the marker "..."
\* (FinancialChatbot's single list: its header and the first 3 fragments)
C25_ContextAssembly ==
    LET permanent == search_results.permanent_results
        session == search_results.session_results
        parts == PartsOf(context.text)
    IN  /\ context.by # "none" =>
              \A k \in 1..Len(context.text) : k % 2 = 0 => context.text[k] = "\n"
        /\ context.by = "EnhancedFinancialChatbot" =>
              /\ (permanent = << >> /\ session = << >>) <=> context.text = << >>
              /\ ContentPartsAre(parts, FirstN(permanent, PermanentTop)
                                        \o FirstN(session, SessionTop))
              /\ Occurrences(parts, PermanentHeader) = IF permanent # << >> THEN 1 ELSE 0
              /\ Occurrences(parts, SessionHeader) = IF session # << >> THEN 1 ELSE 0
              /\ permanent # << >> => parts[1] = PermanentHeader
              /\ session # << >> =>
                    \E h \in 1..Len(parts) :
                        /\ parts[h] = SessionHeader
                        /\ Len(ContentParts(SubSeq(parts, 1, h)))
                              = Min(PermanentTop, Len(permanent))
        /\ context.by = "FinancialChatbot" =>
              /\ session = << >> <=> context.text = << >>
              /\ ContentPartsAre(parts, FirstN(session, ListTop))
              /\ Occurrences(parts, ListHeader) = IF session # << >> THEN 1 ELSE 0
              /\ session # << >> => parts[1] = ListHeader

\* both sections hold more fragments than are used, and a used fragment is
\* longer than the excerpt
C25_Witness ==
    /\ context.by = "EnhancedFinancialChatbot"
    /\ Len(search_results.permanent_results) > PermanentTop
    /\ Len(search_results.session_results) > SessionTop
    /\ \E k \in 1..PermanentTop :
          Len(search_results.permanent_results[k].content) > ContextExcerptLen
    /\ Len(ContentParts(PartsOf(context.text))) = PermanentTop + SessionTop

(***************************************************************************)
(* Structured chunking.                                                    *)
(***************************************************************************)
\* position of a chunk kind in the order of the strategies
FacetRank(kind) ==
    CASE kind = "overview" -> 1
      [] kind = "column" -> 2
      [] kind \in {"correlation", "summary_statistics"} -> 3
      [] kind = "rows" -> 4
      [] kind = "category" -> 5
      [] kind = "timeseries" -> 6

\* the chunks of the finished run, without their tags
Bodies == [k \in 1..Len(csvOut.chunks) |-> csvOut.chunks[k].body]

OfKind(kind) == SelectSeq(Bodies, LAMBDA c : c.kind = kind)

CsvProcessed == csvOut.made /\ ~csvOut.raised

\* C26: structured chunking emits its chunks in the facet order overview,
\* per-column, statistical, row-batch, categorical, time-series: exactly one
\* overview chunk comes first, then exactly one chunk per column in column
\* order, and no chunk of a later facet precedes a chunk of an earlier facet
C26_FacetOrder ==
    CsvProcessed =>
        LET ncols == Len(table.columns)
        IN  /\ Len(Bodies) >= 1 + ncols
            /\ Bodies[1].kind = "overview"
            /\ Len(OfKind("overview")) = 1
            /\ Len(OfKind("column")) = ncols
            /\ \A i \in 1..ncols :
                  Bodies[1 + i].kind = "column" /\ Bodies[1 + i].col = ColName(i)
            /\ \A i, j \in 1..Len(Bodies) :
                  i < j => FacetRank(Bodies[i].kind) <= FacetRank(Bodies[j].kind)

\* a table whose chunks cover all six facets
C26_Witness ==
    /\ CsvProcessed
    /\ Len(table.columns) = 2
    /\ { FacetRank(Bodies[k].kind) : k \in 1..Len(Bodies) } = 1..6

\* C27: the row-batch chunks partition the rows: with rows_per_group =
\* max(1, chunk_size div (column_count * 20)) the groups are non-empty,
\* contiguous and ascending, of at most rows_per_group rows each, they cover
\* every row once, each label gives the 1-based first and last row, and a table
\* without rows has no row-batch chunk
C27_RowBatchPartition ==
    CsvProcessed =>
        LET groups == OfKind("rows")
            rows_per_group ==
                Max(1, settings.max_chunk_size \div (Len(table.columns) * 20))
        IN  /\ table.nrows = 0 <=> groups = << >>
            /\ \A g \in 1..Len(groups) :
                  /\ 1 <= groups[g].from
                  /\ groups[g].from <= groups[g].to
                  /\ groups[g].to <= table.nrows
                  /\ groups[g].to - groups[g].from + 1 <= rows_per_group
                  /\ groups[g].from = IF g = 1 THEN 1 ELSE groups[g - 1].to + 1
            /\ groups # << >> => groups[Len(groups)].to = table.nrows
            /\ \A r \in 1..table.nrows :
                  Cardinality({ g \in 1..Len(groups) :
                                  groups[g].from <= r /\ r <= groups[g].to }) = 1

\* groups of two rows followed by a shorter last group
C27_Witness ==
    /\ CsvProcessed
    /\ table.nrows = 3
    /\ Len(OfKind("rows")) = 2
    /\ OfKind("rows")[1].to = 2
    /\ OfKind("rows")[2].from = 3

\* the date columns whose time-series chunk cannot be built
FailingDateColumns ==
    { col \in Range(csvOut.analysis.date_columns) : ~ColumnOf(table, col).all_parse }

\* C28: when the time-series chunk of a detected date column cannot be built,
\* ingestion of the table still succeeds with status processed: exactly the
\* failing columns' time-series chunks are missing, every other date column
\* has its chunk, in column order, and the chunks of every other facet are those
\* of the same table with all date columns converting
C28_TimeSeriesBestEffort ==
    (csvOut.made /\ FailingDateColumns # {}) =>
           /\ ~csvOut.raised
           /\ csvOut.status = "processed"
           /\ LET healthy == [nrows |-> table.nrows,
                              columns |-> [i \in 1..Len(table.columns) |->
                                  IF is_date(table.columns[i])
                                  THEN [table.columns[i] EXCEPT !.all_parse = TRUE]
                                  ELSE table.columns[i]]]
                  expected == create_structured_chunks(healthy, analyze_data(healthy),
                                                       settings)
              IN  /\ Bodies = SelectSeq(expected,
                                LAMBDA c : ~(c.kind = "timeseries"
                                             /\ c.col \in FailingDateColumns))
                  /\ \A col \in Range(csvOut.analysis.date_columns) \ FailingDateColumns :
                        \E k \in 1..Len(Bodies) :
                            Bodies[k].kind = "timeseries" /\ Bodies[k].col = col

\* the first of two date columns fails and the second has its chunk
C28_Witness ==
    /\ CsvProcessed
    /\ csvOut.status = "processed"
    /\ csvOut.analysis.date_columns = << ColName(1), ColName(2) >>
    /\ FailingDateColumns = { ColName(1) }
    /\ OfKind("timeseries") = << [kind |-> "timeseries", col |-> ColName(2),
                                  from |-> 0, to |-> 0] >>

(***************************************************************************)
(* The strategy named by the response.                                     *)
(***************************************************************************)
\* the strategy each state node stands for
NodeLabel(node) ==
    CASE node = "rag_agent" -> "q&a"
      [] node = "summarization_agent" -> "summarization"
      [] node = "mcq_agent" -> "mcq"
      [] node = "error_handler" -> "error"

GraphCompleted == ProcessRequestOver /\ graphExc = None /\ wfResult.kind = "returned"

\* C29 (as claimed): for every request the graph completes, the agent_type of
\* the returned FinancialResponse names the state node that ran for it (q&a
\* for answering, summarization, mcq, error), on the normal path, on the
\* short-circuit path and on the failure-boundary path of the node alike.
C29_AgentTypeNamesNode ==
    \A node \in StateNodes :
        (GraphCompleted /\ NodeRan(node)) => wfResult.agent_type = NodeLabel(node)

====
